---- MODULE Spec2Model ----
(***************************************************************************)
(* pytreqt: requirement extraction, validation, per-process coverage       *)
(* collection, end-of-run aggregation and persistence                      *)
(* (src/src/pytreqt/requirements.py, src/src/pytreqt/plugin.py).           *)
(*                                                                         *)
(* A text is a sequence of words; a requirements document is a sequence of *)
(* (lead, word) items, the lead being what stands in front of the word.    *)
(* Dictionaries are functions whose DOMAIN is the key set.                 *)
(***************************************************************************)
EXTENDS Integers, Sequences, FiniteSets, TLC

\* ------------------------------------------------------------------ bounds
\* How many times the external caller of the parser validates (SpecParser).
MaxValidateCalls == 2
\* How many worker reports reach the coordinator (SpecMerge).
MaxReports == 3

\* ------------------------------------------------------------- vocabulary
Words == {"FR-1.1", "fr-1.1", "FR-1.2", "fr-1.2", "BR-9.9", "see"}

\* str.upper()
Upper(w) ==
  CASE w = "fr-1.1" -> "FR-1.1"
    [] w = "fr-1.2" -> "FR-1.2"
    [] w = "see"    -> "SEE"
    [] OTHER        -> w

\* config.requirement_patterns: FR-\d+\.?\d* and BR-\d+\.?\d*
requirement_patterns == <<"FR", "BR">>

\* re.IGNORECASE match of one pattern against one word
PatternMatches(pattern, w) ==
  CASE pattern = "FR" -> w \in {"FR-1.1", "fr-1.1", "FR-1.2", "fr-1.2"}
    [] pattern = "BR" -> w \in {"BR-9.9"}
    [] OTHER          -> FALSE

ReqIds == {"FR-1.1", "FR-1.2", "BR-9.9"}

\* Test identities (node ids) and their items in collection order.
Items == <<"m1::t1", "m2::t1">>
Tests == {Items[i] : i \in 1..Len(Items)}

\* test.split("::")[-1]
ShortName(test) ==
  CASE test = "m1::t1" -> "t1"
    [] test = "m2::t1" -> "t1"
    [] test = "m1::t2" -> "t2"
    [] OTHER           -> test

Outcomes == {"passed", "failed", "skipped"}

\* item.function.__doc__ : <<>> is a missing or empty docstring
Docstrings ==
  { <<>>, <<"see">>, <<"fr-1.1">>, <<"FR-1.1", "FR-1.2">>, <<"BR-9.9", "see">> }

\* The requirements file: absent, unreadable, or a text.
LeadsMatched == {"^", " ", "- **", "**"}
Documents ==
  { [state |-> "absent", content |-> <<>>],
    [state |-> "unreadable", content |-> <<>>],
    [state |-> "ok", content |-> <<>>],
    [state |-> "ok", content |-> << [lead |-> "^", word |-> "FR-1.1"],
                                   [lead |-> "(", word |-> "FR-1.2"] >>],
    [state |-> "ok", content |-> << [lead |-> "- **", word |-> "fr-1.1"],
                                   [lead |-> "**", word |-> "FR-1.2"] >>] }

Coordinator == "main"
Workers == {"w1", "w2"}
Procs == {Coordinator} \cup Workers

None == "None"
\* parser._valid_requirements = None
NotLoaded == [loaded |-> FALSE, ids |-> {}]
Loaded(ids) == [loaded |-> TRUE, ids |-> ids]
NoError == [kind |-> "none"]
NoData == [test_requirements |-> <<>>, requirement_tests |-> <<>>,
           test_results |-> <<>>, present |-> FALSE]
NoReport == [nodeid |-> None]
NoFile == [state |-> "missing"]
NoStore == [state |-> "missing"]
EmptyDict == <<>>

\* ------------------------------------------------------------------ state
VARIABLES
  xdist,        \* the run is distributed: workers execute, main aggregates
  opt,          \* command line option of the run
  docs,         \* docs[p][t]: the docstring process p sees for test t
  reqFile,      \* the requirements document
  collector,    \* collector[p]: requirements_collector of process p
  valid,        \* valid[p]: parser._valid_requirements of process p
  pc,           \* pc[p]: position of process p in the session
  idx,          \* idx[p]: position of pytest_collection_modifyitems' loop
  ran,          \* ran[p]: tests whose setup has started on p
  cur,          \* cur[p]: the test p is executing and its phase
  rep,          \* rep[p]: the report made and not yet logged
  stats,        \* terminalreporter.stats of the coordinator
  cacheFile,    \* cache_dir / requirements_coverage.json
  written,      \* _save_coverage_data wrote the file in this run
  err,          \* err[p]: the last error that left a hook of p
  lastValidate, \* arguments and result of the last validate_requirements
  calls,        \* number of external calls and of received worker reports
  lastExtract,  \* argument and result of the last extract_requirements
  lastLoad,     \* the last load_valid_requirements; clear_cache called since
  hashStore,    \* cache_dir / requirements_cache.json
  lastDetect,   \* circumstances and result of the last detect_changes
  edited,       \* the document was written since the last detect_changes
  now,          \* the clock read by detect_changes for last_check
  lastCommand   \* the last command line tool that ran and what it gave

\* The state of the command line tools and of direct calls of the parser.
toolVars ==
  <<lastExtract, lastLoad, hashStore, lastDetect, edited, now, lastCommand>>

vars == <<xdist, opt, docs, reqFile, collector, valid, pc, idx, ran, cur, rep,
          stats, cacheFile, written, err, lastValidate, calls, toolVars>>

\* ---------------------------------------------------------- dictionaries
\* d[k] = v
Put(d, k, v) == [x \in DOMAIN d \cup {k} |-> IF x = k THEN v ELSE d[x]]

\* d.update(e)
Update(d, e) ==
  [x \in DOMAIN d \cup DOMAIN e |-> IF x \in DOMAIN e THEN e[x] ELSE d[x]]

\* d.get(k, default); also the read of a defaultdict(list)
Get(d, k, default) == IF k \in DOMAIN d THEN d[k] ELSE default

\* x in list
InList(x, list) == \E i \in 1..Len(list) : list[i] = x

\* ---------------------------------------------------- RequirementsParser
\* re.findall(pattern, docstring, re.IGNORECASE), upper-cased
MatchesOf(pattern, text) ==
  {Upper(text[i]) : i \in {j \in 1..Len(text) : PatternMatches(pattern, text[j])}}

\* mutant: keeps the matches as they are written
extract_requirements_as_written(docstring) ==
  IF docstring = <<>>
    THEN {}
    ELSE UNION {{docstring[i] : i \in {j \in 1..Len(docstring) :
                    PatternMatches(requirement_patterns[k], docstring[j])}} :
                  k \in 1..Len(requirement_patterns)}

\* RequirementsParser.extract_requirements(docstring)
extract_requirements(docstring) ==
  IF docstring = <<>>
    THEN {}
    ELSE UNION {MatchesOf(requirement_patterns[k], docstring) :
                  k \in 1..Len(requirement_patterns)}

\* re.findall(rf"(?:^|\s|-\s\*\*|\*\*)({pattern})", content, M | I), upper-cased
DocumentMatches(pattern, content) ==
  {Upper(content[i].word) :
     i \in {j \in 1..Len(content) :
              /\ content[j].lead \in LeadsMatched
              /\ PatternMatches(pattern, content[j].word)}}

\* mutant: takes what can be read of a document whose read fails
load_valid_requirements_reads_through(cache, file) ==
  IF cache.loaded
    THEN cache.ids
    ELSE IF file.state = "absent"
      THEN {}
      ELSE UNION {DocumentMatches(requirement_patterns[k], file.content) :
                    k \in 1..Len(requirement_patterns)}

\* The set load_valid_requirements returns; it is also the new value of
\* parser._valid_requirements.
load_valid_requirements(cache, file) ==
  IF cache.loaded
    THEN cache.ids
    ELSE IF file.state = "absent"
      THEN {}
      ELSE IF file.state = "unreadable"
        THEN {}
        ELSE UNION {DocumentMatches(requirement_patterns[k], file.content) :
                      k \in 1..Len(requirement_patterns)}

\* mutant: validates also against an empty valid set
validate_requirements_no_empty_check(valid_requirements, requirements, test_name) ==
  LET invalid_requirements == requirements \ valid_requirements
  IN  IF invalid_requirements # {}
        THEN [kind |-> "ValueError", test |-> test_name,
              invalid |-> invalid_requirements]
        ELSE NoError

\* The error validate_requirements raises, NoError when it returns.
\* valid_requirements is the result of its call of load_valid_requirements.
validate_requirements(valid_requirements, requirements, test_name) ==
  IF valid_requirements = {}
    THEN NoError
    ELSE LET invalid_requirements == requirements \ valid_requirements
         IN  IF invalid_requirements # {}
               THEN [kind |-> "ValueError", test |-> test_name,
                     invalid |-> invalid_requirements]
               ELSE NoError


\* ------------------------------------------------- RequirementsCollector
EmptyCollector ==
  [test_requirements |-> EmptyDict, requirement_tests |-> EmptyDict,
   test_results |-> EmptyDict]

\* mutant: a plain dict, no list is created for a new requirement
AppendTest_existing_keys_only(requirement_tests, requirements, test_name) ==
  [r \in DOMAIN requirement_tests |->
     IF r \in requirements
       THEN Append(requirement_tests[r], test_name)
       ELSE requirement_tests[r]]

\* for req in requirements: self.requirement_tests[req].append(test_name)
AppendTest(requirement_tests, requirements, test_name) ==
  [r \in DOMAIN requirement_tests \cup requirements |->
     IF r \in requirements
       THEN Append(Get(requirement_tests, r, <<>>), test_name)
       ELSE requirement_tests[r]]

\* mutant: records the mapping before validating
collect_test_requirements_record_first(c, cache, file, doc, nodeid) ==
  LET requirements == extract_requirements(doc)
      loaded == load_valid_requirements(cache, file)
      error == validate_requirements(loaded, requirements, nodeid)
  IN  IF doc = <<>> \/ requirements = {}
        THEN [collector |-> c, valid |-> cache, error |-> NoError]
        ELSE [collector |->
                [c EXCEPT !.test_requirements = Put(@, nodeid, requirements),
                          !.requirement_tests =
                             AppendTest(@, requirements, nodeid)],
              valid |-> Loaded(loaded), error |-> error]

\* RequirementsCollector.collect_test_requirements(item) with
\* item.function.__doc__ = doc and item.nodeid = nodeid: the collector and the
\* parser cache after the call, and the error it raises (NoError: it returns).
collect_test_requirements(c, cache, file, doc, nodeid) ==
  LET requirements == extract_requirements(doc)
      loaded == load_valid_requirements(cache, file)
      error == validate_requirements(loaded, requirements, nodeid)
  IN  IF doc = <<>> \/ requirements = {}
        THEN [collector |-> c, valid |-> cache, error |-> NoError]
        ELSE IF error # NoError
          THEN [collector |-> c, valid |-> Loaded(loaded), error |-> error]
          ELSE [collector |->
                  [c EXCEPT !.test_requirements = Put(@, nodeid, requirements),
                            !.requirement_tests =
                               AppendTest(@, requirements, nodeid)],
                valid |-> Loaded(loaded), error |-> NoError]

\* ------------------------------------------------------------ the session
\* mutant: PYTEST_XDIST_WORKER is never looked at
is_xdist_worker_never(p) == FALSE

\* os.getenv("PYTEST_XDIST_WORKER") is not None
is_xdist_worker(p) == p \in Workers

\* The processes that collect and execute tests.
Executors == IF xdist THEN Workers ELSE {Coordinator}

Idle == [t |-> None, when |-> None, raised |-> FALSE]

Options == {"none", "requirements_only", "show_last_coverage"}

\* A coverage file left by an earlier run.
PreviousFile ==
  [state |-> "ok",
   requirements |-> [r \in {"FR-1.2"} |->
      << [test_name |-> "t0", full_name |-> "m0::t0", result |-> "passed"] >>],
   summary |-> [total_tests |-> 1, total_requirements |-> 1]]
CorruptFile == [state |-> "corrupt"]

\* No command line tool has run yet.
NoCommand == [name |-> "none"]

\* No tool has run and the parser has not been called directly.
ToolsIdle ==
  /\ lastExtract = [called |-> FALSE]
  /\ lastLoad = [called |-> FALSE, cleared |-> FALSE]
  /\ hashStore = NoStore
  /\ lastDetect = [called |-> FALSE]
  /\ edited = FALSE
  /\ now = 0
  /\ lastCommand = NoCommand

TypeOK ==
  /\ xdist \in BOOLEAN
  /\ opt \in Options
  /\ reqFile.state \in {"absent", "unreadable", "ok"}
  /\ \A p \in Procs :
       /\ pc[p] \in {"collect", "aborted", "run", "done"}
       /\ ran[p] \subseteq Tests
       /\ DOMAIN collector[p].test_requirements \subseteq Tests
       /\ DOMAIN collector[p].test_results \subseteq Tests
       /\ DOMAIN collector[p].requirement_tests \subseteq ReqIds

Init ==
  /\ xdist = FALSE
  /\ opt \in Options
  /\ docs \in [Procs -> [Tests -> Docstrings]]
  /\ \A p \in Procs \ {Coordinator} : \A t \in Tests : docs[p][t] = <<>>
  /\ reqFile \in Documents
  /\ collector = [p \in Procs |-> EmptyCollector]
  /\ valid = [p \in Procs |-> NotLoaded]
  /\ pc = [p \in Procs |-> IF p = Coordinator THEN "collect" ELSE "done"]
  /\ idx = [p \in Procs |-> 1]
  /\ ran = [p \in Procs |-> {}]
  /\ cur = [p \in Procs |-> Idle]
  /\ rep = [p \in Procs |-> NoReport]
  /\ stats = [passed |-> <<>>, failed |-> <<>>, skipped |-> <<>>]
  /\ cacheFile \in {NoFile, PreviousFile}
  /\ written = FALSE
  /\ err = [p \in Procs |-> NoError]
  /\ lastValidate = [called |-> FALSE]
  /\ calls = 0
  /\ ToolsIdle

\* mutant: the loop passes over the items without scanning them
pytest_collection_modifyitems_scans_nothing(p) ==
  /\ p \in Executors
  /\ pc[p] = "collect"
  /\ idx' = [idx EXCEPT ![p] = @ + 1]
  /\ pc' = [pc EXCEPT ![p] = IF idx[p] = Len(Items) THEN "run" ELSE "collect"]
  /\ UNCHANGED <<toolVars, xdist, opt, docs, reqFile, ran, cur, rep, stats,
                 cacheFile, written, lastValidate, calls, collector, valid,
                 err>>

\* One iteration of the loop of pytest_collection_modifyitems (the handler's
\* remaining lines only mark items as skipped, which is the option's effect
\* on the setup outcome).  An error leaves the hook and aborts collection.
pytest_collection_modifyitems(p) ==
  /\ p \in Executors
  /\ pc[p] = "collect"
  /\ LET item == Items[idx[p]]
         r == collect_test_requirements(collector[p], valid[p], reqFile,
                                        docs[p][item], item)
     IN  /\ collector' = [collector EXCEPT ![p] = r.collector]
         /\ valid' = [valid EXCEPT ![p] = r.valid]
         /\ IF r.error # NoError
              THEN /\ err' = [err EXCEPT ![p] = r.error]
                   /\ pc' = [pc EXCEPT ![p] = "aborted"]
                   /\ idx' = idx
              ELSE /\ err' = err
                   /\ idx' = [idx EXCEPT ![p] = @ + 1]
                   /\ pc' = [pc EXCEPT ![p] =
                               IF idx[p] = Len(Items) THEN "run" ELSE "collect"]
  /\ UNCHANGED <<toolVars, xdist, opt, docs, reqFile, ran, cur, rep, stats, cacheFile,
                 written, lastValidate, calls>>

\* pytest_runtest_setup(item): the first hook of the setup phase of a test.
pytest_runtest_setup(p, t) ==
  /\ p \in Executors
  /\ pc[p] = "run"
  /\ cur[p] = Idle
  /\ rep[p] = NoReport
  /\ t \notin ran[p]
  /\ LET r == collect_test_requirements(collector[p], valid[p], reqFile,
                                        docs[p][t], t)
     IN  /\ collector' = [collector EXCEPT ![p] = r.collector]
         /\ valid' = [valid EXCEPT ![p] = r.valid]
         /\ err' = [err EXCEPT ![p] = IF r.error # NoError THEN r.error ELSE @]
         /\ cur' = [cur EXCEPT ![p] =
                      [t |-> t, when |-> "setup", raised |-> r.error # NoError]]
  /\ ran' = [ran EXCEPT ![p] = @ \cup {t}]
  /\ UNCHANGED <<toolVars, xdist, opt, docs, reqFile, pc, idx, rep, stats, cacheFile,
                 written, lastValidate, calls>>

\* mutant: the fragment carries no outcome
pytest_runtest_logreport_no_outcome(c, report) ==
  IF /\ report.when = "call"
     /\ report.nodeid \in DOMAIN c.test_requirements
     /\ ~report.data.present
    THEN LET test_name == report.nodeid
             requirements == c.test_requirements[test_name]
         IN  [report EXCEPT !.data =
                [test_requirements |-> [x \in {test_name} |-> requirements],
                 requirement_tests |-> [r \in requirements |-> <<test_name>>],
                 test_results |-> EmptyDict,
                 present |-> TRUE]]
    ELSE report

\* pytest_runtest_logreport(report) on a process whose collector is c: the
\* report with the fragment attached (or as it was).
pytest_runtest_logreport(c, report) ==
  IF /\ report.when = "call"
     /\ report.nodeid \in DOMAIN c.test_requirements
     /\ ~report.data.present
    THEN LET test_name == report.nodeid
             requirements == c.test_requirements[test_name]
         IN  [report EXCEPT !.data =
                [test_requirements |-> [x \in {test_name} |-> requirements],
                 requirement_tests |-> [r \in requirements |-> <<test_name>>],
                 test_results |-> [x \in {test_name} |-> report.outcome],
                 present |-> TRUE]]
    ELSE report

\* mutant: records the outcome of every phase
RecordOutcome_every_phase(test_results, nodeid, when, outcome) ==
  Put(test_results, nodeid, outcome)

\* test_results after pytest_runtest_makereport has seen the report
RecordOutcome(test_results, nodeid, when, outcome) ==
  IF when = "call"
    THEN Put(test_results, nodeid, outcome)
    ELSE IF when = "setup" /\ outcome = "skipped"
      THEN Put(test_results, nodeid, "skipped")
      ELSE test_results

\* The outcomes the runner can report for the phase p is in.
PhaseOutcomes(p) ==
  IF cur[p].when = "setup"
    THEN IF cur[p].raised
           THEN {"failed"}
           ELSE IF opt # "none" THEN {"skipped"} ELSE Outcomes
    ELSE IF cur[p].when = "call" THEN Outcomes ELSE {"passed", "failed"}

\* pytest_runtest_makereport(item, call): the runner has made the report of
\* the phase that just ended.
pytest_runtest_makereport(p) ==
  /\ pc[p] = "run"
  /\ cur[p] # Idle
  /\ rep[p] = NoReport
  /\ \E outcome \in PhaseOutcomes(p) :
       /\ collector' = [collector EXCEPT ![p].test_results =
                          RecordOutcome(@, cur[p].t, cur[p].when, outcome)]
       /\ rep' = [rep EXCEPT ![p] =
                    [nodeid |-> cur[p].t, when |-> cur[p].when,
                     outcome |-> outcome, data |-> NoData]]
  /\ UNCHANGED <<toolVars, xdist, opt, docs, reqFile, valid, pc, idx, ran, cur, stats,
                 cacheFile, written, err, lastValidate, calls>>

\* The category under which the terminal reporter files a report; only the
\* categories pytest_terminal_summary reads are kept.
Category(report) ==
  IF report.when = "call"
    THEN report.outcome
    ELSE IF report.outcome = "skipped" THEN "skipped" ELSE "unread"

AddStats(st, report) ==
  IF Category(report) = "unread"
    THEN st
    ELSE [st EXCEPT ![Category(report)] = Append(@, report)]

\* The phase that follows the reported one.
NextPhase(c, report) ==
  IF report.when = "setup" /\ report.outcome = "passed"
    THEN [c EXCEPT !.when = "call"]
    ELSE IF report.when = "teardown"
      THEN Idle
      ELSE [c EXCEPT !.when = "teardown", !.raised = FALSE]

\* The report is logged: pytest_runtest_logreport runs in the process that
\* made it and, for a worker, again in the coordinator that receives it; the
\* coordinator's terminal reporter files it.
LogReport(p) ==
  /\ pc[p] = "run"
  /\ rep[p] # NoReport
  /\ LET local == pytest_runtest_logreport(collector[p], rep[p])
         received == IF p = Coordinator
                       THEN local
                       ELSE pytest_runtest_logreport(collector[Coordinator], local)
     IN  stats' = AddStats(stats, received)
  /\ cur' = [cur EXCEPT ![p] = NextPhase(@, rep[p])]
  /\ rep' = [rep EXCEPT ![p] = NoReport]
  /\ UNCHANGED <<toolVars, xdist, opt, docs, reqFile, collector, valid, pc, idx, ran,
                 cacheFile, written, err, lastValidate, calls>>

\* ------------------------------------------------------------- aggregation
RECURSIVE AppendNew(_, _, _)
\* for test in tests: if test not in list: list.append(test)
AppendNew(list, tests, i) ==
  IF i > Len(tests)
    THEN list
    ELSE AppendNew(IF InList(tests[i], list) THEN list ELSE Append(list, tests[i]),
                   tests, i + 1)

\* mutant: the fragment's records replace the aggregated ones
MergeStep_replaces_records(agg, data) ==
  [test_requirements |-> data.test_requirements,
   test_results |-> data.test_results,
   requirement_tests |->
     [r \in DOMAIN agg.requirement_tests \cup DOMAIN data.requirement_tests |->
        IF r \in DOMAIN data.requirement_tests
          THEN AppendNew(Get(agg.requirement_tests, r, <<>>),
                         data.requirement_tests[r], 1)
          ELSE agg.requirement_tests[r]]]

\* The body of the loop over reports: one fragment merged into the aggregate.
MergeStep(agg, data) ==
  [test_requirements |-> Update(agg.test_requirements, data.test_requirements),
   test_results |-> Update(agg.test_results, data.test_results),
   requirement_tests |->
     [r \in DOMAIN agg.requirement_tests \cup DOMAIN data.requirement_tests |->
        IF r \in DOMAIN data.requirement_tests
          THEN AppendNew(Get(agg.requirement_tests, r, <<>>),
                         data.requirement_tests[r], 1)
          ELSE agg.requirement_tests[r]]]

RECURSIVE MergeReports(_, _, _)
\* for report in reports: if hasattr(report, "_requirements_data"): merge
MergeReports(agg, reports, i) ==
  IF i > Len(reports)
    THEN agg
    ELSE MergeReports(IF reports[i].data.present
                        THEN MergeStep(agg, reports[i].data)
                        ELSE agg,
                      reports, i + 1)

\* mutant: the categories are visited in another order
CategoryOrder_skipped_first == <<"skipped", "failed", "passed">>

\* for category in ["passed", "failed", "skipped"]
CategoryOrder == <<"passed", "failed", "skipped">>

\* The reports in the order pytest_terminal_summary visits them.
ReportsInOrder(st) ==
  st[CategoryOrder[1]] \o st[CategoryOrder[2]] \o st[CategoryOrder[3]]

\* aggregated_test_requirements, aggregated_requirement_tests and
\* aggregated_test_results after the loops of pytest_terminal_summary
Aggregate(st) == MergeReports(EmptyCollector, ReportsInOrder(st), 1)

\* ------------------------------------------------------------- persistence
AllRequirements(c) ==
  UNION {c.test_requirements[t] : t \in DOMAIN c.test_requirements}

\* mutant: total_tests counts the tests that have a result
CoverageData_counts_results(c) ==
  [state |-> "ok",
   requirements |->
     [req \in AllRequirements(c) |->
        LET tests == Get(c.requirement_tests, req, <<>>)
        IN  [i \in 1..Len(tests) |->
               [test_name |-> ShortName(tests[i]), full_name |-> tests[i],
                result |-> Get(c.test_results, tests[i], "unknown")]]],
   summary |-> [total_tests |-> Cardinality(DOMAIN c.test_results),
                total_requirements |-> Cardinality(AllRequirements(c))]]

\* coverage_data of _save_coverage_data, without command_info
CoverageData(c) ==
  [state |-> "ok",
   requirements |->
     [req \in AllRequirements(c) |->
        LET tests == Get(c.requirement_tests, req, <<>>)
        IN  [i \in 1..Len(tests) |->
               [test_name |-> ShortName(tests[i]), full_name |-> tests[i],
                result |-> Get(c.test_results, tests[i], "unknown")]]],
   summary |-> [total_tests |-> Cardinality(DOMAIN c.test_requirements),
                total_requirements |-> Cardinality(AllRequirements(c))]]

\* What the file system does to the write of the cache file.
IoOutcomes == {"ok", "mkdir_fails", "open_fails", "dump_fails"}

\* _save_coverage_data() for the collector c: the file afterwards, the error
\* that leaves it, and the collector (reading the defaultdict
\* requirement_tests[req] inserts a missing key).
save_coverage_data(c, file, io) ==
  LET touched == [c EXCEPT !.requirement_tests =
                    [r \in DOMAIN c.requirement_tests \cup AllRequirements(c) |->
                       Get(c.requirement_tests, r, <<>>)]]
  IN  IF io = "mkdir_fails"
        THEN [file |-> file, error |-> [kind |-> "OSError"], collector |-> c,
              written |-> FALSE]
        ELSE IF io = "open_fails"
          THEN [file |-> file, error |-> [kind |-> "OSError"],
                collector |-> touched, written |-> FALSE]
          ELSE IF io = "dump_fails"
            THEN [file |-> CorruptFile, error |-> [kind |-> "OSError"],
                  collector |-> touched, written |-> FALSE]
            ELSE [file |-> CoverageData(c), error |-> NoError,
                  collector |-> touched, written |-> TRUE]

\* The lines a display command prints for the requirements of a coverage
\* file: under each requirement the name and the result of each test.
Listing(file) ==
  [req \in DOMAIN file.requirements |->
     [i \in 1..Len(file.requirements[req]) |->
        [test_name |-> file.requirements[req][i].test_name,
         result |-> file.requirements[req][i].result]]]

\* mutant: json.load is not guarded
display_cached_coverage_unguarded(file) ==
  IF file.state = "missing"
    THEN [message |-> "No cached requirements coverage found. Run tests first.",
          listing |-> EmptyDict, error |-> NoError]
    ELSE IF file.state = "corrupt"
      THEN [message |-> "", listing |-> EmptyDict,
            error |-> [kind |-> "JSONDecodeError"]]
      ELSE [message |-> "Requirements Coverage (from last run)",
            listing |-> Listing(file), summary |-> file.summary,
            error |-> NoError]

\* _display_cached_coverage(terminalreporter): the heading or message it
\* writes, the listing and the summary below it, and the error that leaves it.
display_cached_coverage(file) ==
  IF file.state = "missing"
    THEN [message |-> "No cached requirements coverage found. Run tests first.",
          listing |-> EmptyDict, error |-> NoError]
    ELSE IF file.state = "corrupt"
      THEN [message |-> "Error reading cached coverage", listing |-> EmptyDict,
            error |-> NoError]
      ELSE [message |-> "Requirements Coverage (from last run)",
            listing |-> Listing(file), summary |-> file.summary,
            error |-> NoError]

\* show_requirements_coverage_rich(): the same on the rich console
show_requirements_coverage_rich(file) ==
  IF file.state = "missing"
    THEN [message |-> "No cached requirements coverage found. Run tests first.",
          listing |-> EmptyDict, error |-> NoError]
    ELSE IF file.state = "corrupt"
      THEN [message |-> "Error reading cached coverage", listing |-> EmptyDict,
            error |-> NoError]
      ELSE [message |-> "Requirements Coverage (Last Run)",
            listing |-> Listing(file), summary |-> file.summary,
            error |-> NoError]

\* mutant: the fallback saves whatever the collector holds
TerminalSummary_fallback_unguarded(p, c, st, file, option, io) ==
  IF option = "show_last_coverage"
    THEN [file |-> file, collector |-> c, error |-> NoError, written |-> FALSE]
    ELSE IF is_xdist_worker(p)
      THEN [file |-> file, collector |-> c, error |-> NoError, written |-> FALSE]
      ELSE LET agg == Aggregate(st)
           IN  IF agg.test_requirements # EmptyDict
                 THEN LET s == save_coverage_data(agg, file, io)
                      IN  [file |-> s.file,
                           collector |-> IF s.error = NoError THEN c ELSE s.collector,
                           error |-> s.error, written |-> s.written]
                 ELSE save_coverage_data(c, file, io)

\* pytest_terminal_summary up to the report section (which only prints).
\* The result: the cache file, the process's collector, the error that leaves
\* the hook, and whether the file was written.
TerminalSummary(p, c, st, file, option, io) ==
  IF option = "show_last_coverage"
    THEN [file |-> file, collector |-> c, error |-> NoError, written |-> FALSE]
    ELSE IF is_xdist_worker(p)
      THEN [file |-> file, collector |-> c, error |-> NoError, written |-> FALSE]
      ELSE LET agg == Aggregate(st)
           IN  IF agg.test_requirements # EmptyDict
                 THEN LET s == save_coverage_data(agg, file, io)
                      IN  [file |-> s.file,
                           collector |-> IF s.error = NoError THEN c ELSE s.collector,
                           error |-> s.error, written |-> s.written]
                 ELSE IF c.test_requirements # EmptyDict
                   THEN save_coverage_data(c, file, io)
                   ELSE [file |-> file, collector |-> c, error |-> NoError,
                         written |-> FALSE]

\* The end of the session of process p: after collection was aborted, or at
\* any point between two hooks of the run (a run may be interrupted).  The
\* coordinator of a distributed run gets there after every worker has finished.
pytest_terminal_summary(p) ==
  /\ pc[p] \in {"aborted", "run"}
  /\ rep[p] = NoReport
  /\ (xdist /\ p = Coordinator) => \A w \in Workers : pc[w] = "done"
  /\ \E io \in IoOutcomes :
       LET r == TerminalSummary(p, collector[p], stats, cacheFile, opt, io)
       IN  /\ cacheFile' = r.file
           /\ collector' = [collector EXCEPT ![p] = r.collector]
           /\ err' = [err EXCEPT ![p] = IF r.error # NoError THEN r.error ELSE @]
           /\ written' = r.written
  /\ lastCommand' =
       IF opt = "show_last_coverage"
         THEN [name |-> "show_last_coverage", file |-> cacheFile,
               result |-> display_cached_coverage(cacheFile)]
         ELSE lastCommand
  /\ pc' = [pc EXCEPT ![p] = "done"]
  /\ UNCHANGED <<xdist, opt, docs, reqFile, valid, idx, ran, cur, rep, stats,
                 lastValidate, calls, lastExtract, lastLoad, hashStore,
                 lastDetect, edited, now>>

Next ==
  \/ \E p \in Procs : pytest_collection_modifyitems(p)
  \/ \E p \in Procs : \E t \in Tests : pytest_runtest_setup(p, t)
  \/ \E p \in Procs : pytest_runtest_makereport(p)
  \/ \E p \in Procs : LogReport(p)
  \/ \E p \in Procs : pytest_terminal_summary(p)

Spec == Init /\ [][Next]_vars

\* ------------------------------------------------------ the parser alone
\* parser.validate_requirements(requirements, test_name) called on the
\* coordinator's parser with any set of references.
ValidateCall(requirements, test_name) ==
  /\ calls < MaxValidateCalls
  /\ calls' = calls + 1
  /\ LET loaded == load_valid_requirements(valid[Coordinator], reqFile)
     IN  /\ valid' = [valid EXCEPT ![Coordinator] = Loaded(loaded)]
         /\ lastValidate' =
              [called |-> TRUE, requirements |-> requirements,
               test_name |-> test_name, valid_requirements |-> loaded,
               error |-> validate_requirements(loaded, requirements, test_name),
               memo |-> valid[Coordinator], file |-> reqFile]
         /\ lastLoad' = [called |-> TRUE, cleared |-> FALSE,
                         memo |-> valid[Coordinator], file |-> reqFile,
                         result |-> loaded]
  /\ UNCHANGED <<xdist, opt, docs, reqFile, collector, pc, idx, ran, cur, rep,
                 stats, cacheFile, written, err, lastExtract, hashStore,
                 lastDetect, edited, now, lastCommand>>

NextParser ==
  \E requirements \in SUBSET ReqIds : \E t \in Tests :
     ValidateCall(requirements, t)

SpecParser == Init /\ [][NextParser]_vars

\* ------------------------------------------- the coordinator of a xdist run
\* The workers have collected and run the tests; the coordinator collects
\* nothing and receives their reports.
InitMerge ==
  /\ xdist = TRUE
  /\ opt = "none"
  /\ docs = [p \in Procs |-> [t \in Tests |-> <<>>]]
  /\ reqFile \in {d \in Documents : d.state = "absent"}
  /\ collector = [p \in Procs |-> EmptyCollector]
  /\ valid = [p \in Procs |-> NotLoaded]
  /\ pc = [p \in Procs |-> IF p = Coordinator THEN "run" ELSE "done"]
  /\ idx = [p \in Procs |-> 1]
  /\ ran = [p \in Procs |-> {}]
  /\ cur = [p \in Procs |-> Idle]
  /\ rep = [p \in Procs |-> NoReport]
  /\ stats = [passed |-> <<>>, failed |-> <<>>, skipped |-> <<>>]
  /\ cacheFile = NoFile
  /\ written = FALSE
  /\ err = [p \in Procs |-> NoError]
  /\ lastValidate = [called |-> FALSE]
  /\ calls = 0
  /\ ToolsIdle

\* The docstrings of the tests whose reports arrive (a test without a
\* docstring sends the same bare report as one whose docstring cites nothing).
WorkerDocstrings == {d \in Docstrings : d # <<>> /\ "BR-9.9" \notin extract_requirements(d)}

\* A worker whose copy of test t carries the docstring doc has scanned it and
\* logged the call report with the given outcome; the coordinator logs the
\* report it receives and its terminal reporter files it.
ReceiveReport(t, doc, outcome) ==
  /\ xdist
  /\ pc[Coordinator] = "run"
  /\ calls < MaxReports
  /\ calls' = calls + 1
  /\ LET worker == collect_test_requirements(EmptyCollector, NotLoaded, reqFile,
                                             doc, t).collector
         sent == pytest_runtest_logreport(worker,
                   [nodeid |-> t, when |-> "call", outcome |-> outcome,
                    data |-> NoData])
         received == pytest_runtest_logreport(collector[Coordinator], sent)
     IN  stats' = AddStats(stats, received)
  /\ UNCHANGED <<toolVars, xdist, opt, docs, reqFile, collector, valid, pc, idx, ran, cur,
                 rep, cacheFile, written, err, lastValidate>>

NextMerge ==
  \/ \E t \in Tests : \E doc \in WorkerDocstrings : \E outcome \in Outcomes :
       ReceiveReport(t, doc, outcome)
  \/ pytest_terminal_summary(Coordinator)

SpecMerge == InitMerge /\ [][NextMerge]_vars

\* Single-process runs and coordinators of distributed runs together.
SpecAll == (Init \/ InitMerge) /\ [][Next \/ NextMerge]_vars

\* -------------------------------------------- direct calls of the parser
MaxTextLen == 2

\* The texts given to extract_requirements; the empty text stands for an
\* empty or absent docstring as well.
Texts == UNION {[1..n -> Words] : n \in 0..MaxTextLen}

\* The requirements file as the parser meets it between its calls; a file
\* whose read fails may well hold identifiers.
RegistryDocuments ==
  Documents \cup
    { [state |-> "unreadable",
       content |-> << [lead |-> "^", word |-> "FR-1.1"] >>] }

\* A parser that has just been constructed, outside a test session.
InitRegistry ==
  /\ xdist = FALSE
  /\ opt = "none"
  /\ docs = [p \in Procs |-> [t \in Tests |-> <<>>]]
  /\ reqFile \in RegistryDocuments
  /\ collector = [p \in Procs |-> EmptyCollector]
  /\ valid = [p \in Procs |-> NotLoaded]
  /\ pc = [p \in Procs |-> "done"]
  /\ idx = [p \in Procs |-> 1]
  /\ ran = [p \in Procs |-> {}]
  /\ cur = [p \in Procs |-> Idle]
  /\ rep = [p \in Procs |-> NoReport]
  /\ stats = [passed |-> <<>>, failed |-> <<>>, skipped |-> <<>>]
  /\ cacheFile = NoFile
  /\ written = FALSE
  /\ err = [p \in Procs |-> NoError]
  /\ lastValidate = [called |-> FALSE]
  /\ calls = 0
  /\ ToolsIdle

\* parser.extract_requirements(docstring)
ExtractCall(docstring) ==
  /\ lastExtract' = [called |-> TRUE, docstring |-> docstring,
                     requirements |-> extract_requirements(docstring)]
  /\ UNCHANGED <<xdist, opt, docs, reqFile, collector, valid, pc, idx, ran, cur,
                 rep, stats, cacheFile, written, err, lastValidate, calls,
                 lastLoad, hashStore, lastDetect, edited, now,
                 lastCommand>>

NextExtract == \E docstring \in Texts : ExtractCall(docstring)

SpecExtract == InitRegistry /\ [][NextExtract]_vars

\* parser.load_valid_requirements() on the coordinator's parser; lastLoad
\* records the call, as it records the one validate_requirements makes.
LoadCall ==
  /\ LET loaded == load_valid_requirements(valid[Coordinator], reqFile)
     IN  /\ valid' = [valid EXCEPT ![Coordinator] = Loaded(loaded)]
         /\ lastLoad' = [called |-> TRUE, cleared |-> FALSE,
                         memo |-> valid[Coordinator], file |-> reqFile,
                         result |-> loaded]
  /\ UNCHANGED <<xdist, opt, docs, reqFile, collector, pc, idx, ran, cur, rep,
                 stats, cacheFile, written, err, lastValidate, calls,
                 lastExtract, hashStore, lastDetect, edited, now,
                 lastCommand>>

\* mutant: leaves the loaded set in place
clear_cache_keeps_set(cache) == cache

\* parser._valid_requirements after clear_cache()
clear_cache(cache) == NotLoaded

\* parser.clear_cache() on the coordinator's parser
ClearCacheCall ==
  /\ valid' = [valid EXCEPT ![Coordinator] = clear_cache(@)]
  /\ lastLoad' = [lastLoad EXCEPT !.cleared = TRUE]
  /\ UNCHANGED <<xdist, opt, docs, reqFile, collector, pc, idx, ran, cur, rep,
                 stats, cacheFile, written, err, lastValidate, calls,
                 lastExtract, hashStore, lastDetect, edited, now,
                 lastCommand>>

\* Somebody writes, removes or locks the requirements file.
EditDocument(document) ==
  /\ reqFile' = document
  /\ edited' = TRUE
  /\ UNCHANGED <<xdist, opt, docs, collector, valid, pc, idx, ran, cur, rep,
                 stats, cacheFile, written, err, lastValidate, calls,
                 lastExtract, lastLoad, hashStore, lastDetect, now,
                 lastCommand>>

NextRegistry ==
  \/ LoadCall
  \/ ClearCacheCall
  \/ \E document \in RegistryDocuments : EditDocument(document)
  \/ \E requirements \in SUBSET ReqIds : ValidateCall(requirements, Items[1])

SpecRegistry == InitRegistry /\ [][NextRegistry]_vars

\* ------------------------------------------------ RequirementChangeDetector
MaxDetects == 2

\* One line of the requirements file that names a requirement: what stands
\* before the identifier, the identifier, what follows it, the description.
Bullet(word, description) ==
  [lead |-> "- **", word |-> word, tail |-> "**: ", desc |-> description]
Plain(word, description) ==
  [lead |-> "^", word |-> word, tail |-> ": ", desc |-> description]

\* The requirements file as the change detector meets it between its runs.
DetectorDocuments ==
  { [state |-> "absent", content |-> <<>>],
    [state |-> "unreadable", content |-> << Bullet("FR-1.1", "X") >>],
    [state |-> "ok",
     content |-> << Bullet("FR-1.1", "X"), Bullet("fr-1.2", "Y") >>],
    [state |-> "ok",
     content |-> << Bullet("FR-1.1", "Z"), Bullet("fr-1.2", "Y") >>],
    [state |-> "ok",
     content |-> << Plain("FR-1.1", "X"), Bullet("fr-1.2", "Y") >>],
    [state |-> "ok",
     content |-> << Plain("FR-1.1", "Z"), Bullet("fr-1.2", "Y") >>] }

\* hashlib.sha256(x.encode()).hexdigest(): different texts, different digests
Sha256(x) == <<"sha256", x>>
\* the None get_requirements_hash returns, and a key json.load does not find
NoHash == <<>>

\* get_requirements_hash() of a file that can be read
get_requirements_hash(file) ==
  IF file.state = "absent" THEN NoHash ELSE Sha256(file.content)

RECURSIVE MarkdownMatches(_, _, _, _)
\* for req_id, description in re.findall(rf"-\s+\*\*({pattern})\*\*:\s+(.+)",
\* content, M | I): requirements[req_id.upper()] = description.strip()
MarkdownMatches(requirements, pattern, content, i) ==
  IF i > Len(content)
    THEN requirements
    ELSE MarkdownMatches(
           IF /\ content[i].lead = "- **"
              /\ content[i].tail = "**: "
              /\ PatternMatches(pattern, content[i].word)
             THEN Put(requirements, Upper(content[i].word), content[i].desc)
             ELSE requirements,
           pattern, content, i + 1)

RECURSIVE ExtractWithPatterns(_, _, _)
\* for pattern in self.config.requirement_patterns
ExtractWithPatterns(requirements, content, k) ==
  IF k > Len(requirement_patterns)
    THEN requirements
    ELSE ExtractWithPatterns(
           MarkdownMatches(requirements, requirement_patterns[k], content, 1),
           content, k + 1)

\* RequirementChangeDetector.extract_requirements() of a file that can be
\* read: identifier -> description
changes_extract_requirements(file) ==
  IF file.state = "absent"
    THEN EmptyDict
    ELSE ExtractWithPatterns(EmptyDict, file.content, 1)

\* sha256 of f"{req_id}:{description}" for every requirement
get_requirement_hashes(requirements) ==
  [req_id \in DOMAIN requirements |-> Sha256(<<req_id, requirements[req_id]>>)]

\* The cache file holds something json.load rejects.
CorruptStore == [state |-> "corrupt"]

\* The snapshot a run left that was configured with the BR pattern alone, for
\* the document with FR-1.1 and fr-1.2 as bullets.
OtherPatternsStore ==
  [state |-> "ok",
   file_hash |-> Sha256(<< Bullet("FR-1.1", "X"), Bullet("fr-1.2", "Y") >>),
   requirement_hashes |-> EmptyDict,
   last_check |-> 0]

\* mutant: never finds the cache file
load_cache_never_found(store) == EmptyDict

\* load_cache(): the dict read from the cache file, {} when there is none or
\* it cannot be read or parsed
load_cache(store) ==
  IF store.state = "ok"
    THEN [file_hash |-> store.file_hash,
          requirement_hashes |-> store.requirement_hashes,
          last_check |-> store.last_check]
    ELSE EmptyDict

\* mutant: writes the snapshot without the requirement hashes
save_cache_without_hashes(data, store, io) ==
  IF io \in {"mkdir_fails", "open_fails"}
    THEN store
    ELSE IF io = "dump_fails"
      THEN CorruptStore
      ELSE [state |-> "ok", file_hash |-> data.file_hash,
            requirement_hashes |-> EmptyDict,
            last_check |-> data.last_check]

\* save_cache(data): the cache file afterwards.  An OSError is printed as a
\* warning; one raised after open() has truncated the file leaves it unusable.
save_cache(data, store, io) ==
  IF io \in {"mkdir_fails", "open_fails"}
    THEN store
    ELSE IF io = "dump_fails"
      THEN CorruptStore
      ELSE [state |-> "ok", file_hash |-> data.file_hash,
            requirement_hashes |-> data.requirement_hashes,
            last_check |-> data.last_check]

\* One test of the suite in the run get_test_coverage_mapping starts.
SuiteTest(nodeid, requirements, outcome) ==
  [nodeid |-> nodeid, requirements |-> requirements, outcome |-> outcome]

\* Outcomes of `pytest --requirements-report -v`: the tests in the order they
\* ran with the outcome of their call, or no run at all (subprocess.run raises).
TestRuns ==
  { [ran |-> FALSE, tests |-> <<>>],
    [ran |-> TRUE,
     tests |-> << SuiteTest("m1::t1", {"FR-1.1"}, "passed"),
                  SuiteTest("m1::t2", {"FR-1.1", "FR-1.2"}, "failed") >>],
    [ran |-> TRUE,
     tests |-> << SuiteTest("m1::t1", {"FR-1.2"}, "passed"),
                  SuiteTest("m2::t1", {"FR-1.2", "BR-9.9"}, "failed") >>],
    [ran |-> TRUE,
     tests |-> << SuiteTest("m1::t1", {"FR-1.1", "FR-1.2"}, "passed"),
                  SuiteTest("m1::t2", {"BR-9.9"}, "skipped") >>] }

RECURSIVE RunCollected(_, _, _)
\* The collector of the run after every test was scanned once.
RunCollected(c, tests, i) ==
  IF i > Len(tests)
    THEN c
    ELSE RunCollected(
           IF tests[i].requirements = {}
             THEN c
             ELSE [c EXCEPT !.test_requirements =
                              Put(@, tests[i].nodeid, tests[i].requirements),
                            !.requirement_tests =
                              AppendTest(@, tests[i].requirements,
                                         tests[i].nodeid)],
           tests, i + 1)

\* requirements_collector at the end of the run: every test was scanned at
\* collection and again at its setup, and its call was reported.
RunCollector(run) ==
  [RunCollected(RunCollected(EmptyCollector, run.tests, 1), run.tests, 1)
     EXCEPT !.test_results =
       [t \in {run.tests[i].nodeid : i \in 1..Len(run.tests)} |->
          (CHOOSE e \in {run.tests[i] : i \in 1..Len(run.tests)} :
              e.nodeid = t).outcome]]

RECURSIVE RunStats(_, _, _, _)
\* terminalreporter.stats at the end of the run
RunStats(st, c, tests, i) ==
  IF i > Len(tests)
    THEN st
    ELSE RunStats(
           AddStats(st, pytest_runtest_logreport(c,
                      [nodeid |-> tests[i].nodeid, when |-> "call",
                       outcome |-> tests[i].outcome, data |-> NoData])),
           c, tests, i + 1)

\* The data the report section of pytest_terminal_summary prints: the
\* aggregated data if there is any, the collector's otherwise.
RunDisplayed(run) ==
  LET c == RunCollector(run)
      agg == Aggregate(RunStats([passed |-> <<>>, failed |-> <<>>,
                                 skipped |-> <<>>], c, run.tests, 1))
  IN  IF agg.test_requirements # EmptyDict THEN agg ELSE c

\* The coverage file after the run, which saves its snapshot as every run does.
RunSnapshot(run, file) ==
  IF run.ran
    THEN LET c == RunCollector(run)
         IN  TerminalSummary(Coordinator, c,
                             RunStats([passed |-> <<>>, failed |-> <<>>,
                                       skipped |-> <<>>], c, run.tests, 1),
                             file, "none", "ok").file
    ELSE file

RECURSIVE VerboseResults(_, _, _)
\* First pass over the output: test_results[test_name] = "PASSED" in line,
\* for the lines with PASSED or FAILED, test_name the last part of the node id
VerboseResults(test_results, tests, i) ==
  IF i > Len(tests)
    THEN test_results
    ELSE VerboseResults(
           IF tests[i].outcome \in {"passed", "failed"}
             THEN Put(test_results, ShortName(tests[i].nodeid),
                      tests[i].outcome = "passed")
             ELSE test_results,
           tests, i + 1)

RECURSIVE ListedNames(_, _, _, _, _)
\* Second pass, under one requirement header: the names of the lines that
\* start with the pass mark and whose name the first pass holds as passed.
ListedNames(names, tests, shown, test_results, i) ==
  IF i > Len(tests)
    THEN names
    ELSE ListedNames(
           IF /\ Get(shown, tests[i], "unknown") = "passed"
              /\ Get(test_results, ShortName(tests[i]), FALSE)
             THEN Append(names, ShortName(tests[i]))
             ELSE names,
           tests, shown, test_results, i + 1)

\* mutant: lists every test the report shows under the requirement
get_test_coverage_mapping_all_listed(run) ==
  IF ~run.ran
    THEN EmptyDict
    ELSE LET d == RunDisplayed(run)
             Names(req) == [i \in 1..Len(d.requirement_tests[req]) |->
                              ShortName(d.requirement_tests[req][i])]
         IN  [req \in {r \in AllRequirements(d) : Names(r) # <<>>} |->
                Names(req)]

\* get_test_coverage_mapping(): requirement -> names of tests, parsed from
\* the output of the run; {} if anything raises.
get_test_coverage_mapping(run) ==
  IF ~run.ran
    THEN EmptyDict
    ELSE LET d == RunDisplayed(run)
             test_results == VerboseResults(EmptyDict, run.tests, 1)
             Names(req) == ListedNames(<<>>, d.requirement_tests[req],
                                       d.test_results, test_results, 1)
         IN  [req \in {r \in AllRequirements(d) : Names(r) # <<>>} |->
                Names(req)]

\* The mapping and the coverage file each run of the suite gives, computed once.
CoverageMappings == [run \in TestRuns |-> get_test_coverage_mapping(run)]
RunSnapshots == [run \in TestRuns |-> RunSnapshot(run, NoFile)]

\* The coverage file after the run: the run's snapshot if it saved one.
SnapshotAfter(run, file) ==
  IF RunSnapshots[run] = NoFile THEN file ELSE RunSnapshots[run]

NoChanges ==
  [file_changed |-> FALSE, added_requirements |-> {},
   modified_requirements |-> {}, removed_requirements |-> {},
   affected_tests |-> {}]

\* mutant: compares the requirement hashes although the file hash is the same
detect_changes_no_short_circuit(file, store, run, io, at) ==
  IF file.state = "unreadable"
    THEN [error |-> [kind |-> "OSError"], changes |-> NoChanges,
          store |-> store, ran_tests |-> FALSE, saved |-> FALSE]
    ELSE
      LET current_req_hashes ==
            get_requirement_hashes(changes_extract_requirements(file))
          current_file_hash == get_requirements_hash(file)
          cache == load_cache(store)
          previous_req_hashes == Get(cache, "requirement_hashes", EmptyDict)
          previous_file_hash == Get(cache, "file_hash", NoHash)
          current_req_ids == DOMAIN current_req_hashes
          previous_req_ids == DOMAIN previous_req_hashes
          added == current_req_ids \ previous_req_ids
          removed == previous_req_ids \ current_req_ids
          modified == {req_id \in current_req_ids \cap previous_req_ids :
                         current_req_hashes[req_id] # previous_req_hashes[req_id]}
          req_to_tests == CoverageMappings[run]
          affected_reqs == added \cup modified \cup removed
          affected ==
            UNION {{req_to_tests[r][i] : i \in 1..Len(req_to_tests[r])} :
                     r \in affected_reqs \cap DOMAIN req_to_tests}
          new_cache == [file_hash |-> current_file_hash,
                        requirement_hashes |-> current_req_hashes,
                        last_check |-> at]
      IN  [error |-> NoError,
           changes |-> [file_changed |-> current_file_hash # previous_file_hash,
                        added_requirements |-> added,
                        modified_requirements |-> modified,
                        removed_requirements |-> removed,
                        affected_tests |-> affected],
           store |-> save_cache(new_cache, store, io),
           ran_tests |-> TRUE, saved |-> io = "ok"]

\* RequirementChangeDetector.detect_changes() at time `at`, with the cache
\* file `store`, the test run `run` it would start and the fate `io` of its
\* write: the error that leaves it or the changes it returns, the cache file
\* afterwards, whether it ran the tests and whether it wrote the cache file.
\* The lists it returns are in no specified order; they are sets here.
detect_changes(file, store, run, io, at) ==
  IF file.state = "unreadable"
    THEN [error |-> [kind |-> "OSError"], changes |-> NoChanges,
          store |-> store, ran_tests |-> FALSE, saved |-> FALSE]
    ELSE
      LET current_req_hashes ==
            get_requirement_hashes(changes_extract_requirements(file))
          current_file_hash == get_requirements_hash(file)
          cache == load_cache(store)
          previous_req_hashes == Get(cache, "requirement_hashes", EmptyDict)
          previous_file_hash == Get(cache, "file_hash", NoHash)
      IN  IF current_file_hash = previous_file_hash
            THEN [error |-> NoError, changes |-> NoChanges, store |-> store,
                  ran_tests |-> FALSE, saved |-> FALSE]
            ELSE
              LET current_req_ids == DOMAIN current_req_hashes
                  previous_req_ids == DOMAIN previous_req_hashes
                  added == current_req_ids \ previous_req_ids
                  removed == previous_req_ids \ current_req_ids
                  modified ==
                    {req_id \in current_req_ids \cap previous_req_ids :
                       current_req_hashes[req_id] # previous_req_hashes[req_id]}
                  req_to_tests == CoverageMappings[run]
                  affected_reqs == added \cup modified \cup removed
                  affected ==
                    UNION {{req_to_tests[r][i] : i \in 1..Len(req_to_tests[r])} :
                             r \in affected_reqs \cap DOMAIN req_to_tests}
                  new_cache == [file_hash |-> current_file_hash,
                                requirement_hashes |-> current_req_hashes,
                                last_check |-> at]
              IN  [error |-> NoError,
                   changes |-> [file_changed |-> TRUE,
                                added_requirements |-> added,
                                modified_requirements |-> modified,
                                removed_requirements |-> removed,
                                affected_tests |-> affected],
                   store |-> save_cache(new_cache, store, io),
                   ran_tests |-> TRUE, saved |-> io = "ok"]

\* What lastDetect keeps of the call before the last.
NoEarlierCall ==
  [called |-> FALSE, error |-> NoError, file_changed |-> FALSE,
   saved |-> FALSE]

\* The tool has been installed; earlier runs may have left a cache file.
InitDetector ==
  /\ xdist = FALSE
  /\ opt = "none"
  /\ docs = [p \in Procs |-> [t \in Tests |-> <<>>]]
  /\ reqFile \in DetectorDocuments
  /\ collector = [p \in Procs |-> EmptyCollector]
  /\ valid = [p \in Procs |-> NotLoaded]
  /\ pc = [p \in Procs |-> "done"]
  /\ idx = [p \in Procs |-> 1]
  /\ ran = [p \in Procs |-> {}]
  /\ cur = [p \in Procs |-> Idle]
  /\ rep = [p \in Procs |-> NoReport]
  /\ stats = [passed |-> <<>>, failed |-> <<>>, skipped |-> <<>>]
  /\ cacheFile = NoFile
  /\ written = FALSE
  /\ err = [p \in Procs |-> NoError]
  /\ lastValidate = [called |-> FALSE]
  /\ calls = 0
  /\ lastExtract = [called |-> FALSE]
  /\ lastLoad = [called |-> FALSE, cleared |-> FALSE]
  /\ hashStore \in {NoStore, CorruptStore, OtherPatternsStore}
  /\ lastDetect = [called |-> FALSE]
  /\ edited = FALSE
  /\ now = 0
  /\ lastCommand = NoCommand

\* detector.detect_changes() is called.  lastDetect keeps its circumstances:
\* the document, the cache file as it was, the test run, whether the document
\* is as it was at the call before, and what that call did.
DetectChanges ==
  /\ now < MaxDetects
  /\ now' = now + 1
  /\ edited' = FALSE
  /\ \E run \in TestRuns : \E io \in IoOutcomes :
       LET r == detect_changes(reqFile, hashStore, run, io, now + 1)
       IN  /\ hashStore' = r.store
           /\ cacheFile' = IF r.ran_tests
                             THEN SnapshotAfter(run, cacheFile)
                             ELSE cacheFile
           /\ lastDetect' =
                [called |-> TRUE, error |-> r.error, changes |-> r.changes,
                 file |-> reqFile, before |-> hashStore,
                 run |-> IF r.ran_tests THEN run ELSE [ran |-> FALSE, tests |-> <<>>],
                 ran_tests |-> r.ran_tests, saved |-> r.saved,
                 again |-> lastDetect.called /\ ~edited,
                 first |-> IF lastDetect.called
                             THEN [called |-> TRUE, error |-> lastDetect.error,
                                   file_changed |-> lastDetect.changes.file_changed,
                                   saved |-> lastDetect.saved]
                             ELSE NoEarlierCall]
  /\ UNCHANGED <<xdist, opt, docs, reqFile, collector, valid, pc, idx, ran, cur,
                 rep, stats, written, err, lastValidate, calls, lastExtract,
                 lastLoad, lastCommand>>

NextDetector ==
  \/ DetectChanges
  \/ \E document \in DetectorDocuments : EditDocument(document)

SpecDetector == InitDetector /\ [][NextDetector]_vars

\* ------------------------------------------------------ `pytreqt changes`
\* mutant: main returns after printing the report
changes_main_no_exit(file, store, run, io, at) ==
  IF file.state = "absent"
    THEN [status |-> 1, detected |-> FALSE,
          result |-> [error |-> NoError, changes |-> NoChanges,
                      store |-> store, ran_tests |-> FALSE, saved |-> FALSE]]
    ELSE LET r == detect_changes(file, store, run, io, at)
         IN  [status |-> IF r.error # NoError THEN 1 ELSE 0,
              detected |-> TRUE, result |-> r]

\* main() of tools/changes.py: the exit status of the process, whether
\* detect_changes was called, and what that call did.  An exception that
\* leaves main ends the process with status 1.
changes_main(file, store, run, io, at) ==
  IF file.state = "absent"
    THEN [status |-> 1, detected |-> FALSE,
          result |-> [error |-> NoError, changes |-> NoChanges,
                      store |-> store, ran_tests |-> FALSE, saved |-> FALSE]]
    ELSE LET r == detect_changes(file, store, run, io, at)
         IN  [status |-> IF r.error # NoError
                           THEN 1
                           ELSE IF r.changes.file_changed THEN 1 ELSE 0,
              detected |-> TRUE, result |-> r]

\* The effects of a run of main that gave m: on the cache files and on what
\* is remembered of the last detect_changes and of the last command.
ChangesRan(run, m) ==
  /\ hashStore' = m.result.store
  /\ cacheFile' = IF m.result.ran_tests
                    THEN SnapshotAfter(run, cacheFile)
                    ELSE cacheFile
  /\ edited' = IF m.detected THEN FALSE ELSE edited
  /\ lastDetect' =
       IF m.detected
         THEN [called |-> TRUE, error |-> m.result.error,
               changes |-> m.result.changes, file |-> reqFile,
               before |-> hashStore,
               run |-> IF m.result.ran_tests
                         THEN run
                         ELSE [ran |-> FALSE, tests |-> <<>>],
               ran_tests |-> m.result.ran_tests, saved |-> m.result.saved,
               again |-> lastDetect.called /\ ~edited,
               first |-> IF lastDetect.called
                           THEN [called |-> TRUE, error |-> lastDetect.error,
                                 file_changed |->
                                   lastDetect.changes.file_changed,
                                 saved |-> lastDetect.saved]
                           ELSE NoEarlierCall]
         ELSE lastDetect
  /\ lastCommand' =
       [name |-> "changes", status |-> m.status, file |-> reqFile,
        detected |-> m.detected, error |-> m.result.error,
        file_changed |-> m.result.changes.file_changed]

\* `pytreqt changes` runs from start to exit.
ChangesMain ==
  /\ now < MaxDetects
  /\ now' = now + 1
  /\ \E run \in TestRuns : \E io \in IoOutcomes :
       ChangesRan(run, changes_main(reqFile, hashStore, run, io, now + 1))
  /\ UNCHANGED <<xdist, opt, docs, reqFile, collector, valid, pc, idx, ran, cur,
                 rep, stats, written, err, lastValidate, calls, lastExtract,
                 lastLoad>>

NextChanges ==
  \/ ChangesMain
  \/ \E document \in DetectorDocuments : EditDocument(document)

SpecChanges == InitDetector /\ [][NextChanges]_vars

\* ----------------------------------------------------- `pytreqt coverage`
RECURSIVE SpecsMatches(_, _, _, _)
\* for req_id, description in re.findall(rf"\*\*({pattern})\*\*:\s+(.+)",
\* content, M | I): requirements[req_id.upper()] = description.strip()
SpecsMatches(requirements, pattern, content, i) ==
  IF i > Len(content)
    THEN requirements
    ELSE SpecsMatches(
           IF /\ content[i].lead \in {"- **", "**"}
              /\ content[i].tail = "**: "
              /\ PatternMatches(pattern, content[i].word)
             THEN Put(requirements, Upper(content[i].word), content[i].desc)
             ELSE requirements,
           pattern, content, i + 1)

RECURSIVE SpecsWithPatterns(_, _, _)
\* for pattern in config.requirement_patterns
SpecsWithPatterns(requirements, content, k) ==
  IF k > Len(requirement_patterns)
    THEN requirements
    ELSE SpecsWithPatterns(
           SpecsMatches(requirements, requirement_patterns[k], content, 1),
           content, k + 1)

\* extract_requirements_from_specs() of a file that can be read:
\* identifier -> description
extract_requirements_from_specs(file) ==
  IF file.state = "absent"
    THEN EmptyDict
    ELSE SpecsWithPatterns(EmptyDict, file.content, 1)

\* Outcomes of the run of the suite that _get_test_coverage starts.
CoverageRuns ==
  { [ran |-> FALSE, tests |-> <<>>],
    [ran |-> TRUE,
     tests |-> << SuiteTest("m1::t1", {"FR-1.1"}, "passed"),
                  SuiteTest("m1::t2", {"FR-1.1", "FR-1.2"}, "failed") >>],
    [ran |-> TRUE,
     tests |-> << SuiteTest("m1::t1", {"FR-1.2"}, "passed"),
                  SuiteTest("m2::t1", {"FR-1.2"}, "failed") >>],
    [ran |-> TRUE,
     tests |-> << SuiteTest("m1::t1", {"FR-1.1", "FR-1.2"}, "passed"),
                  SuiteTest("m1::t2", {"FR-1.1"}, "skipped") >>],
    [ran |-> TRUE,
     tests |-> << SuiteTest("m1::t1", {"FR-1.2"}, "passed"),
                  SuiteTest("m1::t2", {"BR-9.9"}, "passed") >>] }

\* The runs the suite can give with this requirements file: every test that
\* is collected has passed validate_requirements.
RunsWith(file) ==
  LET valid_requirements == load_valid_requirements(NotLoaded, file)
  IN  {run \in CoverageRuns :
         \A i \in 1..Len(run.tests) :
            validate_requirements(valid_requirements, run.tests[i].requirements,
                                  run.tests[i].nodeid) = NoError}

\* _get_test_coverage(): the detector's mapping, {} if anything raises
get_test_coverage(run) == get_test_coverage_mapping(run)

\* set(tests): the tests of a list
Unique(tests) == {tests[i] : i \in 1..Len(tests)}

\* _generate_coverage_matrix(): the figures of the Coverage Summary, the
\* status and the test cases shown for each requirement, and the list of
\* requirements needing tests; None when no requirement is found.  The
\* percentage is kept in tenths, as it is printed.
generate_coverage_matrix(file, run) ==
  LET all_requirements == extract_requirements_from_specs(file)
      test_coverage == get_test_coverage(run)
      total == Cardinality(DOMAIN all_requirements)
      tested == Cardinality(DOMAIN test_coverage)
  IN  IF all_requirements = EmptyDict
        THEN [generated |-> FALSE]
        ELSE [generated |-> TRUE,
              total_requirements |-> total,
              with_tests |-> tested,
              without_tests |-> total - tested,
              percentage |-> (tested * 1000) \div total,
              status |->
                [req_id \in DOMAIN all_requirements |->
                   IF Unique(Get(test_coverage, req_id, <<>>)) # {}
                     THEN "Tested" ELSE "Not Tested"],
              test_cases |->
                [req_id \in DOMAIN all_requirements |->
                   Unique(Get(test_coverage, req_id, <<>>))],
              needing_tests |->
                {req \in DOMAIN all_requirements : req \notin DOMAIN test_coverage}]

\* main() of tools/coverage.py: the exit status, the error that ends it, the
\* mapping it obtained and the matrix it wrote.
coverage_main(file, run) ==
  IF file.state = "absent"
    THEN [status |-> 1, error |-> NoError, mapped |-> FALSE,
          mapping |-> EmptyDict, matrix |-> [generated |-> FALSE]]
    ELSE IF file.state = "unreadable"
      THEN [status |-> 1, error |-> [kind |-> "OSError"], mapped |-> FALSE,
            mapping |-> EmptyDict, matrix |-> [generated |-> FALSE]]
      ELSE LET matrix == generate_coverage_matrix(file, run)
           IN  [status |-> IF matrix.generated THEN 0 ELSE 1,
                error |-> NoError, mapped |-> TRUE,
                mapping |-> get_test_coverage(run), matrix |-> matrix]

\* The effects of a run of main that gave m, the suite it ran having left
\* the given snapshot: on the coverage file and on what is remembered of the
\* last command.
CoverageRan(run, m, snapshot) ==
  /\ cacheFile' = IF m.mapped /\ snapshot # NoFile THEN snapshot ELSE cacheFile
  /\ lastCommand' =
       [name |-> "coverage", file |-> reqFile, status |-> m.status,
        error |-> m.error, mapped |-> m.mapped,
        run |-> IF m.mapped THEN run ELSE [ran |-> FALSE, tests |-> <<>>],
        mapping |-> m.mapping, matrix |-> m.matrix]

\* `pytreqt coverage` runs from start to exit; the run of the suite it
\* starts saves its snapshot as every run does.
CoverageMain ==
  /\ \E run \in RunsWith(reqFile) :
       CoverageRan(run, coverage_main(reqFile, run), RunSnapshot(run, NoFile))
  /\ UNCHANGED <<xdist, opt, docs, reqFile, collector, valid, pc, idx, ran, cur,
                 rep, stats, written, err, lastValidate, calls, lastExtract,
                 lastLoad, hashStore, lastDetect, edited, now>>

NextCoverage ==
  \/ CoverageMain
  \/ \E document \in DetectorDocuments : EditDocument(document)

SpecCoverage == InitDetector /\ [][NextCoverage]_vars

\* ------------------------------------------ the workers of a xdist run
\* The docstrings of the suite, the same in every process.
SuiteDocstrings ==
  [t \in Tests |-> IF t = Items[1] THEN <<"fr-1.1">> ELSE <<"FR-1.1", "FR-1.2">>]

\* A distributed session starts: every worker collects the whole suite, the
\* coordinator collects nothing and waits for reports.
InitWorkers ==
  /\ xdist = TRUE
  /\ opt = "none"
  /\ docs = [p \in Procs |-> SuiteDocstrings]
  /\ reqFile \in {d \in Documents : d.state = "absent"}
  /\ collector = [p \in Procs |-> EmptyCollector]
  /\ valid = [p \in Procs |-> NotLoaded]
  /\ pc = [p \in Procs |-> IF p = Coordinator THEN "run" ELSE "collect"]
  /\ idx = [p \in Procs |-> 1]
  /\ ran = [p \in Procs |-> {}]
  /\ cur = [p \in Procs |-> Idle]
  /\ rep = [p \in Procs |-> NoReport]
  /\ stats = [passed |-> <<>>, failed |-> <<>>, skipped |-> <<>>]
  /\ cacheFile \in {NoFile, PreviousFile}
  /\ written = FALSE
  /\ err = [p \in Procs |-> NoError]
  /\ lastValidate = [called |-> FALSE]
  /\ calls = 0
  /\ ToolsIdle

\* The scheduler hands test t to worker w: no worker has been given it yet.
ScheduledSetup(w, t) ==
  /\ xdist
  /\ \A q \in Workers : t \notin ran[q]
  /\ pytest_runtest_setup(w, t)

NextWorkers ==
  \/ \E w \in Workers : pytest_collection_modifyitems(w)
  \/ \E w \in Workers : \E t \in Tests : ScheduledSetup(w, t)
  \/ \E w \in Workers : pytest_runtest_makereport(w)
  \/ \E w \in Workers : LogReport(w)
  \/ \E p \in Procs : pytest_terminal_summary(p)

SpecWorkers == InitWorkers /\ [][NextWorkers]_vars

\* ------------------------------------------------ reading the caches back
\* `pytreqt show`
ShowCommand ==
  /\ lastCommand' = [name |-> "show", file |-> cacheFile,
                     result |-> show_requirements_coverage_rich(cacheFile)]
  /\ UNCHANGED <<xdist, opt, docs, reqFile, collector, valid, pc, idx, ran, cur,
                 rep, stats, cacheFile, written, err, lastValidate, calls,
                 lastExtract, lastLoad, hashStore, lastDetect, edited, now>>

\* A session started with --show-last-coverage is about to end (its tests
\* are all skipped); earlier runs and tools may have left their cache files,
\* whole or cut short by a failed write.
InitReadBack ==
  /\ xdist = FALSE
  /\ opt = "show_last_coverage"
  /\ docs = [p \in Procs |-> [t \in Tests |-> <<>>]]
  /\ reqFile \in DetectorDocuments
  /\ collector = [p \in Procs |-> EmptyCollector]
  /\ valid = [p \in Procs |-> NotLoaded]
  /\ pc = [p \in Procs |-> IF p = Coordinator THEN "run" ELSE "done"]
  /\ idx = [p \in Procs |-> 1]
  /\ ran = [p \in Procs |-> {}]
  /\ cur = [p \in Procs |-> Idle]
  /\ rep = [p \in Procs |-> NoReport]
  /\ stats = [passed |-> <<>>, failed |-> <<>>, skipped |-> <<>>]
  /\ cacheFile \in {NoFile, CorruptFile, PreviousFile}
  /\ written = FALSE
  /\ err = [p \in Procs |-> NoError]
  /\ lastValidate = [called |-> FALSE]
  /\ calls = 0
  /\ lastExtract = [called |-> FALSE]
  /\ lastLoad = [called |-> FALSE, cleared |-> FALSE]
  /\ hashStore \in {NoStore, CorruptStore, OtherPatternsStore}
  /\ lastDetect = [called |-> FALSE]
  /\ edited = FALSE
  /\ now = 0
  /\ lastCommand = NoCommand

NextReadBack ==
  \/ pytest_terminal_summary(Coordinator)
  \/ ShowCommand
  \/ DetectChanges

SpecReadBack == InitReadBack /\ [][NextReadBack]_vars

\* ------------------------------------------------------------------ claims

\* C1: validate_requirements raises the unknown-requirement error if and only
\* if the loaded valid set is non-empty and the references are not a subset of
\* it; in every other case it returns without error.
C1_ValidateRaisesIff ==
  lastValidate.called =>
    ( (lastValidate.error # NoError)
        <=> ( /\ lastValidate.valid_requirements # {}
              /\ ~(lastValidate.requirements \subseteq
                     lastValidate.valid_requirements) ) )

C1_Witness ==
  /\ lastValidate.called
  /\ lastValidate.error # NoError
  /\ lastValidate.valid_requirements = {"FR-1.1"}
  /\ lastValidate.requirements = {"FR-1.1", "FR-1.2"}

\* A step in which process p scans the documentation of test t.
ScanStep(p, t) ==
  IF pc[p] = "collect"
    THEN /\ Items[idx[p]] = t
         /\ pc'[p] # "done"
         /\ (idx'[p] # idx[p] \/ pc'[p] = "aborted")
    ELSE /\ cur[p] = Idle
         /\ cur'[p] # Idle
         /\ cur'[p].t = t

\* The scan of t by p left the hook with an error.
ScanRaised(p) == IF pc[p] = "collect" THEN pc'[p] = "aborted" ELSE cur'[p].raised

\* The identifiers the docstring of t cites outside the valid set p loads.
Offending(p, t) ==
  LET cited == extract_requirements(docs[p][t])
      known == load_valid_requirements(valid[p], reqFile)
  IN  IF known = {} THEN {} ELSE cited \ known

\* C2: a scan of a test whose documentation cites an identifier outside a
\* non-empty valid set raises at once an error that names the test and exactly
\* the offending identifiers, and leaves test_requirements, requirement_tests
\* and test_results of the collector as they were.
C2_ScanErrorLeavesCollector ==
  [][\A p \in Procs : \A t \in Tests :
       (ScanStep(p, t) /\ Offending(p, t) # {}) =>
          /\ ScanRaised(p)
          /\ err'[p] = [kind |-> "ValueError", test |-> t,
                        invalid |-> Offending(p, t)]
          /\ collector'[p] = collector[p]]_vars

\* The second item's scan raised after the first item had been recorded.
C2_Witness ==
  /\ pc[Coordinator] = "aborted"
  /\ err[Coordinator] = [kind |-> "ValueError", test |-> Items[2],
                         invalid |-> {"BR-9.9"}]
  /\ DOMAIN collector[Coordinator].test_requirements = {Items[1]}

\* The call-phase report of t with outcome "passed" has been recorded.
CallPassed(t) ==
  \E i \in 1..Len(stats.passed) :
     stats.passed[i].nodeid = t /\ stats.passed[i].when = "call"

\* The snapshot lists t under req, and every entry of t there has the result.
ListedWith(file, req, t, result) ==
  /\ req \in DOMAIN file.requirements
  /\ \E i \in 1..Len(file.requirements[req]) :
        file.requirements[req][i].full_name = t
  /\ \A i \in 1..Len(file.requirements[req]) :
        file.requirements[req][i].full_name = t =>
          file.requirements[req][i].result = result

\* C3: once the documentation of a test has been scanned and its call-phase
\* outcome "passed" recorded, the snapshot written at the end of the run lists
\* the test under every requirement of its documentation, with result
\* "passed".
C3_PassedTestInSnapshot ==
  written =>
    \A t \in Tests :
       (t \in ran[Coordinator] /\ CallPassed(t)) =>
          \A req \in extract_requirements(docs[Coordinator][t]) :
             ListedWith(cacheFile, req, t, "passed")

C3_Witness ==
  /\ written
  /\ \E t \in Tests :
       /\ t \in ran[Coordinator]
       /\ CallPassed(t)
       /\ Cardinality(extract_requirements(docs[Coordinator][t])) = 2

\* The two dictionaries of a collector refer only to each other's keys.
CrossConsistent(c) ==
  /\ \A req \in DOMAIN c.requirement_tests :
        \A i \in 1..Len(c.requirement_tests[req]) :
           c.requirement_tests[req][i] \in DOMAIN c.test_requirements
  /\ \A t \in DOMAIN c.test_requirements :
        c.test_requirements[t] \subseteq DOMAIN c.requirement_tests

\* C4: in every collector state and in every merged snapshot, each test in a
\* requirement's list is a key of the test records and each requirement of a
\* test record is a key of the requirement index.
C4_CrossEntityInvariant ==
  /\ \A p \in Procs : CrossConsistent(collector[p])
  /\ CrossConsistent(Aggregate(stats))

\* Two fragments of one test with different requirement sets are merged.
C4_Witness ==
  /\ \E i \in 1..Len(stats.passed) : \E j \in 1..Len(stats.failed) :
       /\ stats.passed[i].data.present
       /\ stats.failed[j].data.present
       /\ stats.passed[i].nodeid = stats.failed[j].nodeid
       /\ stats.passed[i].data.test_requirements
            # stats.failed[j].data.test_requirements
  /\ pc[Coordinator] = "done"

\* The fragments in the order the coordinator merges them, read off the stats.
Fragments ==
  SelectSeq(stats.passed \o stats.failed \o stats.skipped,
            LAMBDA report : report.data.present)

\* C5: after a merge the requirement index is exactly the inverse of the
\* merged test records: a test is listed under a requirement if and only if
\* the requirement is in the test's merged requirement set.
C5_IndexIsInverseOfRecords ==
  LET agg == Aggregate(stats)
  IN  \A req \in ReqIds : \A t \in Tests :
         InList(t, Get(agg.requirement_tests, req, <<>>))
           <=> (t \in DOMAIN agg.test_requirements
                /\ req \in agg.test_requirements[t])

NoDuplicates(list) ==
  \A i \in 1..Len(list) : \A j \in 1..Len(list) : list[i] = list[j] => i = j

\* C6: in every collector state and in every persisted snapshot each
\* requirement's test list holds each test identity at most once.
C6_NoDuplicateTests ==
  /\ \A p \in Procs : \A req \in DOMAIN collector[p].requirement_tests :
        NoDuplicates(collector[p].requirement_tests[req])
  /\ written =>
       \A req \in DOMAIN cacheFile.requirements :
          NoDuplicates([i \in 1..Len(cacheFile.requirements[req]) |->
                          cacheFile.requirements[req][i].full_name])

\* The position in Fragments of the last fragment that carries test t.
LastCarrying(t) ==
  CHOOSE i \in 1..Len(Fragments) :
     /\ t \in DOMAIN Fragments[i].data.test_requirements
     /\ \A j \in (i + 1)..Len(Fragments) :
           t \notin DOMAIN Fragments[j].data.test_requirements

\* C7: the merged record of a test takes its requirement set and its outcome
\* from the last fragment that carries it, in the order passed, failed,
\* skipped, each in report order.
C7_LastMergedWins ==
  LET agg == Aggregate(stats)
  IN  \A t \in DOMAIN agg.test_requirements :
         LET last == Fragments[LastCarrying(t)].data
         IN  /\ agg.test_requirements[t] = last.test_requirements[t]
             /\ t \in DOMAIN agg.test_results
             /\ agg.test_results[t] = last.test_results[t]

\* A test reported failed before it was reported passed, with other
\* requirements: the failed fragment is merged last all the same.
C7_Witness ==
  /\ pc[Coordinator] = "done"
  /\ written
  /\ Len(stats.passed) = 1 /\ Len(stats.failed) = 1 /\ calls = 2
  /\ stats.passed[1].nodeid = stats.failed[1].nodeid
  /\ stats.passed[1].data.present /\ stats.failed[1].data.present
  /\ stats.passed[1].data.test_requirements
       # stats.failed[1].data.test_requirements

\* The reports rearranged by f.
Rearranged(reports, f) == [i \in 1..Len(reports) |-> reports[f[i]]]

Orderings(n) ==
  {f \in [1..n -> 1..n] : \A i \in 1..n : \A j \in 1..n : f[i] = f[j] => i = j}

\* The test identities of the merge of a sequence of reports.
MergedTests(reports) ==
  DOMAIN MergeReports(EmptyCollector, reports, 1).test_requirements

\* The test identities when the first k fragments and the other fragments
\* are merged apart and the two results, taken as fragments, are merged.
GroupedTests(reports, k) ==
  DOMAIN MergeStep(
           MergeStep(EmptyCollector,
                     MergeReports(EmptyCollector, SubSeq(reports, 1, k), 1)),
           MergeReports(EmptyCollector,
                        SubSeq(reports, k + 1, Len(reports)), 1)).test_requirements

\* C8: the set of test identities of the merged result is the same for every
\* ordering and every grouping of the same fragments.
C8_MembershipOrderIndependent ==
  pc[Coordinator] = "done" =>
    LET fragments == Fragments
        merged == DOMAIN Aggregate(stats).test_requirements
    IN  \A f \in Orderings(Len(fragments)) :
           LET reports == Rearranged(fragments, f)
           IN  /\ MergedTests(reports) = merged
               /\ \A k \in 1..(Len(fragments) - 1) :
                     GroupedTests(reports, k) = merged

\* Three fragments, two tests, merged.
C8_Witness ==
  /\ pc[Coordinator] = "done"
  /\ Len(Fragments) = 3
  /\ DOMAIN Aggregate(stats).test_requirements = Tests
  /\ Fragments[1].nodeid # Fragments[3].nodeid

NoFragmentData ==
  \A category \in {"passed", "failed", "skipped"} :
     \A i \in 1..Len(stats[category]) : ~stats[category][i].data.present

C10_WriteFailureAbsorbed ==
  \A p \in Procs : pc[p] = "done" => err[p].kind # "OSError"

\* A report that counts for the recorded outcome of its test: the report of
\* the call phase, or a setup report that says the test was skipped.
Counts(report) ==
  \/ report.when = "call"
  \/ report.when = "setup" /\ report.outcome = "skipped"

\* Process p's hook pytest_runtest_makereport handles a report in this step.
MakeReportStep(p) == rep[p] = NoReport /\ rep'[p] # NoReport

\* C11: while tests run, the recorded outcome of a test is the outcome of the
\* last report of it that was a call-phase report or a setup-phase report
\* saying "skipped": such a report sets the test's entry to its outcome, and
\* every other setup report, every teardown report and every other hook
\* leave all recorded outcomes as they were.
C11_OutcomeFollowsLastCountingReport ==
  [][\A p \in Procs :
       (pc[p] = "run" /\ pc'[p] = "run") =>
         IF MakeReportStep(p) /\ Counts(rep'[p])
           THEN /\ rep'[p].nodeid \in DOMAIN collector'[p].test_results
                /\ collector'[p].test_results[rep'[p].nodeid] = rep'[p].outcome
                /\ \A t \in DOMAIN collector[p].test_results \ {rep'[p].nodeid} :
                     /\ t \in DOMAIN collector'[p].test_results
                     /\ collector'[p].test_results[t] =
                          collector[p].test_results[t]
                /\ DOMAIN collector'[p].test_results =
                     DOMAIN collector[p].test_results \cup {rep'[p].nodeid}
           ELSE collector'[p].test_results = collector[p].test_results]_vars

\* A teardown that failed after a call that passed: the entry stays "passed".
C11_Witness ==
  /\ rep[Coordinator] # NoReport
  /\ rep[Coordinator].when = "teardown"
  /\ rep[Coordinator].outcome = "failed"
  /\ rep[Coordinator].nodeid \in DOMAIN collector[Coordinator].test_results
  /\ collector[Coordinator].test_results[rep[Coordinator].nodeid] = "passed"

\* C18: extract_requirements(text) is exactly the set of the upper-cased
\* case-insensitive matches of every configured pattern in the text, all
\* patterns taken together; an empty or absent text gives the empty set.
C18_ExtractIsUnionOfUppercasedMatches ==
  lastExtract.called =>
    LET text == lastExtract.docstring
        matching == {i \in 1..Len(text) :
                       \E k \in 1..Len(requirement_patterns) :
                          PatternMatches(requirement_patterns[k], text[i])}
    IN  /\ lastExtract.requirements = {Upper(text[i]) : i \in matching}
        /\ (text = <<>> => lastExtract.requirements = {})

\* A lower-case match of one pattern together with a match of the other.
C18_Witness ==
  /\ lastExtract.called
  /\ lastExtract.docstring = <<"fr-1.1", "BR-9.9">>
  /\ lastExtract.requirements = {"FR-1.1", "BR-9.9"}

\* The requirements file cannot be had: it is absent or its read fails.
Unavailable(file) == file.state \in {"absent", "unreadable"}

\* C19: a load_valid_requirements that goes to the document while the
\* document is absent or its read fails returns the empty set, and
\* validate_requirements then accepts every reference set: the call that met
\* the unavailable document itself, and a call that finds the empty set such
\* a load has left.
C19_UnavailableDocumentDisablesValidation ==
  /\ (lastLoad.called /\ ~lastLoad.memo.loaded /\ Unavailable(lastLoad.file))
       => lastLoad.result = {}
  /\ (lastValidate.called /\ ~lastValidate.memo.loaded
        /\ Unavailable(lastValidate.file))
       => lastValidate.error = NoError
  /\ (lastValidate.called /\ lastLoad.called /\ ~lastLoad.memo.loaded
        /\ Unavailable(lastLoad.file)
        /\ lastValidate.valid_requirements = lastLoad.result)
       => lastValidate.error = NoError

\* A reference is validated while the read of a document that holds another
\* identifier fails.
C19_Witness ==
  /\ lastValidate.called
  /\ ~lastValidate.memo.loaded
  /\ lastValidate.file.state = "unreadable"
  /\ lastValidate.file.content # <<>>
  /\ lastValidate.requirements = {"FR-1.2"}
  /\ lastValidate.error = NoError

\* The identifiers of the content of the requirements file.
IdsOfContent(file) ==
  IF file.state = "ok"
    THEN {Upper(file.content[i].word) :
            i \in {j \in 1..Len(file.content) :
                     /\ file.content[j].lead \in LeadsMatched
                     /\ \E k \in 1..Len(requirement_patterns) :
                          PatternMatches(requirement_patterns[k],
                                         file.content[j].word)}}
    ELSE {}

\* C20: once load_valid_requirements has been called, every later call
\* returns the set of that call, whatever has been done to the document,
\* until clear_cache is called; the first call after clear_cache (and the
\* first call of all) returns the identifiers of the document's content at
\* the time of that call.
C20_LoadMemoizedUntilCleared ==
  [][(lastLoad' # lastLoad /\ ~lastLoad'.cleared) =>
       IF lastLoad.called /\ ~lastLoad.cleared
         THEN lastLoad'.result = lastLoad.result
         ELSE lastLoad'.result = IdsOfContent(reqFile)]_vars

\* A later call returns the set of the first although the document now holds
\* other identifiers.
C20_Witness ==
  /\ lastLoad.called
  /\ ~lastLoad.cleared
  /\ lastLoad.memo.loaded
  /\ lastLoad.result = {"FR-1.1"}
  /\ lastLoad.file.state = "ok"
  /\ IdsOfContent(lastLoad.file) = {"FR-1.1", "FR-1.2"}

\* The last detect_changes returned (it raised nothing).
Returned == lastDetect.called /\ lastDetect.error = NoError

\* The hash snapshot detect_changes computes for a document.
SnapshotOf(file, at) ==
  [state |-> "ok", file_hash |-> get_requirements_hash(file),
   requirement_hashes |->
     get_requirement_hashes(changes_extract_requirements(file)),
   last_check |-> at]

\* The cache file holds the hashes of the document, whenever written.
HoldsHashesOf(store, file) ==
  /\ store.state = "ok"
  /\ store.file_hash = SnapshotOf(file, 0).file_hash
  /\ store.requirement_hashes = SnapshotOf(file, 0).requirement_hashes

\* The two documents are the same but for the description of requirement i.
OnlyDescriptionDiffers(before, after, i) ==
  /\ before.state = "ok"
  /\ after.state = "ok"
  /\ Len(before.content) = Len(after.content)
  /\ i \in 1..Len(after.content)
  /\ \A j \in 1..Len(after.content) :
       /\ before.content[j].lead = after.content[j].lead
       /\ before.content[j].word = after.content[j].word
       /\ before.content[j].tail = after.content[j].tail
       /\ (before.content[j].desc # after.content[j].desc) <=> (j = i)
  /\ Upper(after.content[i].word) \in IdsOfContent(after)

\* C12: when detect_changes finds the document changed, added is the current
\* identifiers without the stored ones, removed the stored ones without the
\* current ones, modified the identifiers in both whose hash differs from the
\* stored one; and when the document differs from the one the stored snapshot
\* was taken of only in the description of one requirement, modified is
\* exactly that requirement and added and removed are empty.
C12_ChangeSetsFollowTheDocument ==
  (Returned /\ lastDetect.changes.file_changed) =>
    LET current == SnapshotOf(lastDetect.file, 0).requirement_hashes
        stored == IF lastDetect.before.state = "ok"
                    THEN lastDetect.before.requirement_hashes
                    ELSE EmptyDict
        changes == lastDetect.changes
    IN  /\ changes.added_requirements = DOMAIN current \ DOMAIN stored
        /\ changes.removed_requirements = DOMAIN stored \ DOMAIN current
        /\ changes.modified_requirements =
             {r \in DOMAIN current \cap DOMAIN stored : current[r] # stored[r]}
        /\ \A earlier \in DetectorDocuments :
             \A i \in 1..Len(lastDetect.file.content) :
               ( /\ HoldsHashesOf(lastDetect.before, earlier)
                 /\ OnlyDescriptionDiffers(earlier, lastDetect.file, i) )
               => /\ changes.modified_requirements =
                       {Upper(lastDetect.file.content[i].word)}
                  /\ changes.added_requirements = {}
                  /\ changes.removed_requirements = {}

\* The document hash the cache file holds; none if it cannot be loaded.
StoredFileHash(store) ==
  IF store.state = "ok" THEN store.file_hash ELSE NoHash

\* C13: when the hash of the document equals the stored document hash,
\* detect_changes reports file_changed false and added, modified, removed and
\* affected_tests all empty, whatever requirement hashes are stored.
C13_SameHashNoChanges ==
  ( /\ Returned
    /\ get_requirements_hash(lastDetect.file) =
         StoredFileHash(lastDetect.before) )
  => /\ lastDetect.changes.file_changed = FALSE
     /\ lastDetect.changes.added_requirements = {}
     /\ lastDetect.changes.modified_requirements = {}
     /\ lastDetect.changes.removed_requirements = {}
     /\ lastDetect.changes.affected_tests = {}

\* The stored requirement hashes are not those of the document.
C13_Witness ==
  /\ Returned
  /\ lastDetect.file.state = "ok"
  /\ lastDetect.before.state = "ok"
  /\ lastDetect.before.file_hash = get_requirements_hash(lastDetect.file)
  /\ lastDetect.before.requirement_hashes #
       SnapshotOf(lastDetect.file, 0).requirement_hashes
  /\ lastDetect.changes = NoChanges

\* The requirements detect_changes reported as added, modified or removed.
ChangedRequirements ==
  lastDetect.changes.added_requirements
    \cup lastDetect.changes.modified_requirements
    \cup lastDetect.changes.removed_requirements

\* The names listed under the requirement in the persisted coverage snapshot.
IndexedTests(file, req) ==
  IF file.state = "ok" /\ req \in DOMAIN file.requirements
    THEN {file.requirements[req][i].test_name :
            i \in 1..Len(file.requirements[req])}
    ELSE {}

PassedByName(run, name) ==
  LET lines == {i \in 1..Len(run.tests) :
                  /\ ShortName(run.tests[i].nodeid) = name
                  /\ run.tests[i].outcome \in {"passed", "failed"}}
  IN  /\ lines # {}
      /\ run.tests[CHOOSE i \in lines : \A j \in lines : j <= i].outcome
           = "passed"

C15_EveryCallWritesSnapshot ==
  Returned => hashStore = SnapshotOf(lastDetect.file, now)

\* C15, amended: detect_changes writes the snapshot only when it finds the
\* document hash changed; the store then holds the document's hash, its
\* requirement hashes and the time of the call if the write succeeds, and is
\* left as it was or unusable if the write fails.  A call that finds the hash
\* unchanged, and a call that raises, leave the store exactly as it was.
C15_SnapshotWrittenOnChange ==
  lastDetect.called =>
    IF lastDetect.error = NoError /\ lastDetect.changes.file_changed
      THEN IF lastDetect.saved
             THEN hashStore = SnapshotOf(lastDetect.file, now)
             ELSE hashStore \in {lastDetect.before, CorruptStore}
      ELSE hashStore = lastDetect.before

\* A call that found nothing changed left the time of the earlier write.
C15_Witness ==
  /\ Returned
  /\ ~lastDetect.changes.file_changed
  /\ hashStore.state = "ok"
  /\ hashStore = lastDetect.before
  /\ hashStore.last_check < now

\* C16 as stated: two calls in a row with no change of the document between
\* them both report file_changed false, and the second leaves the store as
\* it found it.
C16_TwiceInARowBothUnchanged ==
  (Returned /\ lastDetect.again /\ lastDetect.first.error = NoError) =>
    /\ ~lastDetect.first.file_changed
    /\ ~lastDetect.changes.file_changed
    /\ hashStore = lastDetect.before

\* C16, amended: of two calls in a row with no change of the document
\* between them, the second reports file_changed false and leaves the store
\* as it found it, provided the first either reported no change or wrote
\* its snapshot; the first reports a change whenever the document's hash
\* differs from the stored one.
C16_SecondCallUnchanged ==
  ( /\ Returned
    /\ lastDetect.again
    /\ lastDetect.first.error = NoError
    /\ (lastDetect.first.file_changed => lastDetect.first.saved) )
  => /\ ~lastDetect.changes.file_changed
     /\ hashStore = lastDetect.before

\* The first call found a change and wrote it, the second found none.
C16_Witness ==
  /\ Returned
  /\ lastDetect.again
  /\ lastDetect.first.file_changed
  /\ lastDetect.first.saved
  /\ lastDetect.file.state = "ok"
  /\ ~lastDetect.changes.file_changed
  /\ hashStore = lastDetect.before

\* C17: when the requirements document does not exist, detect_changes
\* raises nothing and reports file_changed false with added, modified and
\* removed empty, whatever snapshot is stored.
C17_MissingDocumentNoChange ==
  (lastDetect.called /\ lastDetect.file.state = "absent") =>
    /\ lastDetect.error = NoError
    /\ lastDetect.changes.file_changed = FALSE
    /\ lastDetect.changes.added_requirements = {}
    /\ lastDetect.changes.modified_requirements = {}
    /\ lastDetect.changes.removed_requirements = {}

\* The snapshot pytest_terminal_summary hands to _save_coverage_data: the
\* aggregated data when a report carried any, else the process's collector.
Saved ==
  LET agg == Aggregate(stats)
  IN  IF agg.test_requirements # EmptyDict THEN agg ELSE collector[Coordinator]

\* The test records of a snapshot: identity, requirement set and outcome
\* (test_results.get(test, "unknown")).
TestRecords(c) ==
  {[identity |-> t, requirements |-> c.test_requirements[t],
    outcome |-> Get(c.test_results, t, "unknown")] :
     t \in DOMAIN c.test_requirements}

\* The requirement index read back from the persisted layout: the full_name
\* of every entry, in the order of the list.
ReadIndex(file) ==
  [req \in DOMAIN file.requirements |->
     [i \in 1..Len(file.requirements[req]) |->
        file.requirements[req][i].full_name]]

\* The entries of every list of the persisted layout.
Entries(file) ==
  UNION {{file.requirements[req][i] : i \in 1..Len(file.requirements[req])} :
           req \in DOMAIN file.requirements}

\* The test records read back from the persisted layout: a test has the
\* requirements under which it is listed and the result stored with it.
ReadRecords(file) ==
  {[identity |-> entry.full_name,
    requirements |->
      {req \in DOMAIN file.requirements :
         InList(entry.full_name, ReadIndex(file)[req])},
    outcome |-> entry.result] : entry \in Entries(file)}

\* C21: writing a snapshot in the persisted layout and reading it back gives
\* a requirement index and a set of test records equal to those of the
\* snapshot that was written, whichever snapshot the collector or the
\* aggregation produced.
C21_RoundTrip ==
  [][(written' /\ ~written) =>
       /\ ReadIndex(cacheFile') = Saved.requirement_tests
       /\ ReadRecords(cacheFile') = TestRecords(Saved)]_vars

\* The identifiers the change detector finds in the document.
DetectedIds(file) == DOMAIN changes_extract_requirements(file)

\* C22: reading back a cache file that is missing or cut short raises
\* nothing: the display commands print that there is no cached coverage (or
\* that it cannot be read), list nothing and return, and the change detector
\* goes on as if no snapshot had been stored, so that nothing is reported as
\* modified or removed and every identifier of the document is added.
C22_UnusableCacheIsNoCache ==
  /\ ( /\ lastCommand.name \in {"show_last_coverage", "show"}
       /\ lastCommand.file.state \in {"missing", "corrupt"} )
     => /\ lastCommand.result.error = NoError
        /\ lastCommand.result.listing = EmptyDict
        /\ lastCommand.result.message \in
             {"No cached requirements coverage found. Run tests first.",
              "Error reading cached coverage"}
  /\ ( /\ lastDetect.called
       /\ lastDetect.before.state \in {"missing", "corrupt"}
       /\ lastDetect.file.state # "unreadable" )
     => /\ lastDetect.error = NoError
        /\ lastDetect.changes.modified_requirements = {}
        /\ lastDetect.changes.removed_requirements = {}
        /\ lastDetect.file.state = "ok" =>
             /\ lastDetect.changes.file_changed
             /\ lastDetect.changes.added_requirements
                  = DetectedIds(lastDetect.file)

\* The end of a session displayed a file cut short, and the detector has
\* met an unusable cache file of its own.
C22_Witness ==
  /\ lastCommand.name = "show_last_coverage"
  /\ lastCommand.file.state = "corrupt"
  /\ lastCommand.result.message = "Error reading cached coverage"
  /\ lastDetect.called
  /\ lastDetect.before.state = "corrupt"
  /\ lastDetect.file.state = "ok"
  /\ lastDetect.changes.added_requirements # {}

\* The tests listed anywhere in a coverage file.
ListedTests(file) == {entry.full_name : entry \in Entries(file)}

\* C23: in a distributed run no step of a worker touches the coverage file;
\* the file is written at most once, by the coordinator's end-of-run step,
\* which comes after every worker has finished and sent its reports; no
\* report that arrives earlier causes a write.
C23_OnlyCoordinatorWritesOnceAtEnd ==
  [][(cacheFile' # cacheFile \/ written' # written) =>
       /\ pc[Coordinator] # "done"
       /\ pc'[Coordinator] = "done"
       /\ ~written
       /\ \A w \in Workers : pc[w] = "done" /\ rep[w] = NoReport
       /\ cacheFile' \in {CorruptFile, CoverageData(Aggregate(stats))}]_vars

\* The coordinator wrote the merged snapshot of tests run by both workers.
C23_Witness ==
  /\ xdist
  /\ written
  /\ pc[Coordinator] = "done"
  /\ \E t1 \in ran["w1"] : \E t2 \in ran["w2"] :
        {t1, t2} \subseteq ListedTests(cacheFile)
  /\ \A w \in Workers : collector[w].test_requirements # EmptyDict

\* C24: in every persisted coverage file the summary agrees with the map:
\* total_requirements is the number of its keys and total_tests the number
\* of distinct full_name values in its lists.
C24_SummaryCountsTheMap ==
  cacheFile.state = "ok" =>
    /\ cacheFile.summary.total_requirements
         = Cardinality(DOMAIN cacheFile.requirements)
    /\ cacheFile.summary.total_tests = Cardinality(ListedTests(cacheFile))

\* One passing test cites one of the two requirements the document defines.
C24_Witness ==
  /\ written
  /\ Cardinality(load_valid_requirements(NotLoaded, reqFile)) = 2
  /\ DOMAIN cacheFile.requirements = {"FR-1.1"}
  /\ Len(cacheFile.requirements["FR-1.1"]) = 1
  /\ cacheFile.requirements["FR-1.1"][1].result = "passed"
  /\ cacheFile.summary = [total_tests |-> 1, total_requirements |-> 1]

\* detect_changes was called by the last `pytreqt changes` and returned.
Reported ==
  /\ lastCommand.name = "changes"
  /\ lastCommand.detected
  /\ lastCommand.error = NoError

\* C25: the exit status of `pytreqt changes` tells the two results of
\* detect_changes apart: it is not zero whenever file_changed is true and
\* zero whenever file_changed is false.
C25_ExitStatusFollowsFileChanged ==
  Reported => (lastCommand.status # 0 <=> lastCommand.file_changed)

\* A first run of the command reported the change and exited with 1, the
\* next one found the document as it was and exited with 0.
C25_Witness ==
  /\ Reported
  /\ lastCommand.status = 0
  /\ lastDetect.again
  /\ lastDetect.first.file_changed

\* C26: every test that was scanned with a non-empty requirement set is
\* listed in the coverage file written at the end of the run under each of
\* its requirements, with the outcome recorded for it: 'skipped' for a test
\* skipped during setup, 'unknown' for a test without recorded outcome.
C26_EveryScannedTestPersisted ==
  written =>
    \A t \in DOMAIN collector[Coordinator].test_requirements :
       \A req \in collector[Coordinator].test_requirements[t] :
          /\ req \in DOMAIN cacheFile.requirements
          /\ \E i \in 1..Len(cacheFile.requirements[req]) :
                /\ cacheFile.requirements[req][i].full_name = t
                /\ cacheFile.requirements[req][i].result
                     = Get(collector[Coordinator].test_results, t, "unknown")

\* The reports of the coordinator's terminal reporter that carry a fragment.
CarryingReports ==
  {report \in {Fragments[i] : i \in 1..Len(Fragments)} : report.data.present}

\* C27 as stated: after any interleaving of collection and execution, the
\* test_requirements of a worker hold no test that another worker ran.
C27_WorkerRecordsOnlyOwnTests ==
  \A w \in Workers : \A q \in Workers \ {w} :
     DOMAIN collector[w].test_requirements \cap ran[q] = {}

\* C27, amended: a worker that has finished collection holds the
\* requirements of every test of the suite that cites any, whoever runs it;
\* each fragment that reaches the coordinator names the test of its report
\* alone, and that test ran on exactly one worker.
C27_WorkersScanAllSendOwn ==
  /\ \A w \in Workers :
        idx[w] > Len(Items) =>
           DOMAIN collector[w].test_requirements
             = {t \in Tests : extract_requirements(docs[w][t]) # {}}
  /\ \A report \in CarryingReports :
        /\ DOMAIN report.data.test_requirements = {report.nodeid}
        /\ Cardinality({w \in Workers : report.nodeid \in ran[w]}) = 1

\* A test that ran on w1 and whose fragment reached the coordinator is in
\* the test_requirements of w2 as well.
C27_Witness ==
  \E report \in CarryingReports :
     /\ report.nodeid \in ran["w1"]
     /\ report.nodeid \in DOMAIN collector["w2"].test_requirements
     /\ idx["w2"] > Len(Items)

\* The tests of the run whose mapping the last `pytreqt coverage` obtained.
MappedTests ==
  {lastCommand.run.tests[i] : i \in 1..Len(lastCommand.run.tests)}

\* The mapping lists the test under the requirement, by its name.
ListsUnder(req, test) ==
  InList(ShortName(test.nodeid), Get(lastCommand.mapping, req, <<>>))

\* C28: the mapping get_test_coverage_mapping returns lists a test under a
\* requirement only if that test passed in the run that produced the
\* mapping, and lists every passing test that cites the requirement; failed
\* and skipped tests are not listed.
C28_MappingListsExactlyPassingTests ==
  (lastCommand.name = "coverage" /\ lastCommand.mapped) =>
    \A req \in ReqIds : \A test \in MappedTests :
       ListsUnder(req, test)
         <=> (test.outcome = "passed" /\ req \in test.requirements)

\* The requirements the last matrix shows with the given status.
ShownAs(status) ==
  {req \in DOMAIN lastCommand.matrix.status :
     lastCommand.matrix.status[req] = status}

C29_SummaryLeavesCollectorUnchanged ==
  [][\A p \in Procs :
       (pc[p] # "done" /\ pc'[p] = "done") => collector'[p] = collector[p]]_vars

====
